---- MODULE Spec2Model ----
(***************************************************************************)
(* Model of the cloth / hair mass-spring orchestration code of             *)
(* blender/physics/intern/BPH_mass_spring.cpp (src/unnamed/part_000).      *)
(*                                                                         *)
(* Vectors are modelled by one scalar component.  Velocities, errors and   *)
(* iteration counts are integers; times and positions are fixed-point      *)
(* numbers in units of 2^-27, and the float32 additions of the substep     *)
(* loop are rounded as IEEE-754 single precision rounds them.              *)
(* The linear solver itself (implicit.h, BPH_mass_spring_* functions) is   *)
(* not among the sources; it is modelled from its documented contract.     *)
(***************************************************************************)
EXTENDS Integers, Sequences, FiniteSets, Bags, TLC

VARIABLES
    pc,        \* control position of the entry point that is running
    numverts,  \* cloth->numverts
    verts,     \* cloth->verts : 0..numverts-1 -> ClothVertex
    springs,   \* cloth->springs, the linked list as a sequence of ClothSpring
    implicit,  \* cloth->implicit : NULL or the Implicit_Data solver
    heap,      \* allocator bookkeeping: solvers created / freed so far
    parms,     \* clmd->sim_parms, clmd->coll_parms, clmd->hairdata
    sres,      \* clmd->solver_result
    frame,     \* locals of the running function (step, dt, result, ...)
    contacts   \* the ColliderContacts array of BPH_cloth_solve

vars == <<pc, numverts, verts, springs, implicit, heap, parms, sres, frame, contacts>>

\* the null pointer: a record, so that it compares with the records pointed to
NULL == [null |-> TRUE]

(***************************************************************************)
(* Bounds of the model.                                                    *)
(***************************************************************************)
MaxVerts == 2
MaxSprings == 2
MaxAllocs == 3

(***************************************************************************)
(* Integer helpers.                                                        *)
(***************************************************************************)
Min(a, b) == IF a < b THEN a ELSE b
Max(a, b) == IF a > b THEN a ELSE b

\* (x & b) != 0 for a single-bit mask b
HasBit(x, b) == (x \div b) % 2 = 1
\* x | b and x & ~b for a single-bit mask b
SetBit(x, b) == IF HasBit(x, b) THEN x ELSE x + b
ClearBit(x, b) == IF HasBit(x, b) THEN x - b ELSE x

RECURSIVE SeqSum(_)
SeqSum(s) == IF s = <<>> THEN 0 ELSE Head(s) + SeqSum(Tail(s))

\* all sequences over S of length at most n
SeqsUpTo(S, n) == UNION {[1..k -> S] : k \in 0..n}

(***************************************************************************)
(* Spring types and flags (BKE_cloth.h).                                   *)
(***************************************************************************)
CLOTH_SPRING_TYPE_STRUCTURAL == 2
CLOTH_SPRING_TYPE_SHEAR == 4
CLOTH_SPRING_TYPE_BENDING == 8
CLOTH_SPRING_TYPE_GOAL == 16
CLOTH_SPRING_TYPE_SEWING == 32
CLOTH_SPRING_TYPE_BENDING_ANG == 64

CLOTH_SPRING_FLAG_DEACTIVATE == 2
CLOTH_SPRING_FLAG_NEEDED == 4

\* The types the spring builder assigns, and some combinations of type bits:
\* cloth_calc_spring_force tests bits, cloth_count_nondiag_blocks equality.
SpringTypes ==
    { CLOTH_SPRING_TYPE_STRUCTURAL, CLOTH_SPRING_TYPE_SHEAR,
      CLOTH_SPRING_TYPE_BENDING, CLOTH_SPRING_TYPE_GOAL,
      CLOTH_SPRING_TYPE_SEWING, CLOTH_SPRING_TYPE_BENDING_ANG,
      CLOTH_SPRING_TYPE_BENDING_ANG + CLOTH_SPRING_TYPE_STRUCTURAL,
      CLOTH_SPRING_TYPE_BENDING_ANG + CLOTH_SPRING_TYPE_GOAL,
      CLOTH_SPRING_TYPE_BENDING_ANG + CLOTH_SPRING_TYPE_BENDING,
      CLOTH_SPRING_TYPE_SEWING + CLOTH_SPRING_TYPE_STRUCTURAL,
      CLOTH_SPRING_TYPE_SEWING + CLOTH_SPRING_TYPE_GOAL,
      CLOTH_SPRING_TYPE_GOAL + CLOTH_SPRING_TYPE_BENDING,
      0 }

\* A ClothSpring: its type, its flags, and whether f/dfdx/dfdv hold a
\* computed force (1) or are zero (0).
ClothSpring(t, fl, f) == [type |-> t, flags |-> fl, f |-> f]

(***************************************************************************)
(* Vertices.                                                               *)
(***************************************************************************)
CLOTH_VERT_FLAG_PINNED == 1

Verts == 0..(numverts - 1)

\* A ClothVertex with the fields the solver code reads and writes.
ClothVertex(fl, x, v, xold, xconst) ==
    [flags |-> fl, x |-> x, v |-> v, xold |-> xold, xconst |-> xconst,
     tv |-> 0, tx |-> x, txold |-> x, impulse_count |-> 0]

DefaultVerts(n) == [i \in 0..(n - 1) |-> ClothVertex(0, 0, 0, 0, 0)]

(***************************************************************************)
(* The solver object (Implicit_Data), as far as this file uses it.         *)
(***************************************************************************)
NoConstraint == [ndof |-> 3, dV |-> 0]

\* BPH_mass_spring_solver_create(numverts, numsprings): storage for n
\* vertices and nondiag off-diagonal blocks.  id is the allocation's identity.
BPH_mass_spring_solver_create(id, n, nondiag) ==
    [id |-> id, numverts |-> n, scount |-> nondiag, num_blocks |-> 0,
     fatal |-> FALSE,
     X |-> [i \in 0..(n - 1) |-> 0], V |-> [i \in 0..(n - 1) |-> 0],
     Xnew |-> [i \in 0..(n - 1) |-> 0], Vnew |-> [i \in 0..(n - 1) |-> 0],
     cons |-> [i \in 0..(n - 1) |-> NoConstraint], cons_log |-> <<>>]

BPH_mass_spring_solver_numvert(id) == id.numverts

\* BPH_mass_spring_set_motion_state(data, i, x, v)
BPH_mass_spring_set_motion_state(id, i, x, v) ==
    [id EXCEPT !.X[i] = x, !.V[i] = v]

(***************************************************************************)
(* cloth_count_nondiag_blocks: one pass over the spring list.              *)
(***************************************************************************)
NondiagOfSpring_Mutant(spring) == 1

\* the switch on spring->type
NondiagOfSpring(spring) ==
    IF spring.type = CLOTH_SPRING_TYPE_BENDING_ANG THEN 3 ELSE 1

\* a traversal that stops at the last link instead of after it
CountFrom_Mutant(list, link, nondiag) ==
    nondiag + SeqSum([k \in 1..(Len(list) - link) |->
                         NondiagOfSpring(list[link + k - 1])])

RECURSIVE CountFrom(_, _, _)
CountFrom(list, link, nondiag) ==
    IF link > Len(list) THEN nondiag
    ELSE CountFrom(list, link + 1, nondiag + NondiagOfSpring(list[link]))

cloth_count_nondiag_blocks(list) == CountFrom(list, 1, 0)

(***************************************************************************)
(* cloth_solver_init_data.                                                 *)
(***************************************************************************)
SolverIsStale_Mutant(impl, totvert) == impl # NULL

\* the test of line 981: a solver exists and its vertex count differs
SolverIsStale(impl, totvert) ==
    impl # NULL /\ totvert # BPH_mass_spring_solver_numvert(impl)

\* Returns the new cloth->implicit and the allocator bookkeeping.
cloth_solver_init_data(impl, hp, totvert, list) ==
    LET stale == SolverIsStale(impl, totvert)
        impl1 == IF stale THEN NULL ELSE impl
        hp1   == IF stale THEN [hp EXCEPT !.frees = @ + 1] ELSE hp
    IN  IF impl1 = NULL
        THEN [implicit |-> BPH_mass_spring_solver_create(
                               hp1.allocs + 1, totvert,
                               cloth_count_nondiag_blocks(list)),
              heap |-> [hp1 EXCEPT !.allocs = @ + 1]]
        ELSE [implicit |-> impl1, heap |-> hp1]

RECURSIVE SetStates(_, _, _, _)
\* the loops of BPH_cloth_solver_init (zeroV) and BPH_cloth_solver_set_positions
SetStates(id, vs, i, zeroV) ==
    IF i >= id.numverts THEN id
    ELSE SetStates(BPH_mass_spring_set_motion_state(
                       id, i, vs[i].x, IF zeroV THEN 0 ELSE vs[i].v),
                   vs, i + 1, zeroV)

(***************************************************************************)
(* Values of the variables a specification does not use.                   *)
(***************************************************************************)
NoParms == [is_hair |-> FALSE]
NoResult == NULL
\* contacts = NULL, totcolliders = 0.  ptr says the pointer is not NULL, live
\* that the set it points to is allocated, fault that a set was freed twice,
\* overwritten while allocated, or read after it was freed.
NoContacts ==
    [list |-> <<>>, totcolliders |-> 0, live |-> FALSE, ptr |-> FALSE,
     fault |-> FALSE]

(***************************************************************************)
(* Specification SpecInit: the cloth is rebuilt (vertex count, spring      *)
(* list) and the solver entry points that call cloth_solver_init_data run  *)
(* in any order.                                                           *)
(***************************************************************************)
MaxCalls == 3

InitSpringLists ==
    SeqsUpTo({ClothSpring(CLOTH_SPRING_TYPE_STRUCTURAL, 0, 0),
              ClothSpring(CLOTH_SPRING_TYPE_BENDING_ANG, 0, 0)}, MaxSprings)

InitInit ==
    /\ pc = "idle"
    /\ numverts \in 0..MaxVerts
    /\ verts = DefaultVerts(numverts)
    /\ springs \in InitSpringLists
    /\ implicit = NULL
    /\ heap = [allocs |-> 0, frees |-> 0]
    /\ parms = NoParms
    /\ sres = NoResult
    /\ frame = [op |-> "none", ncalls |-> 0]
    /\ contacts = NoContacts

\* the cloth is rebuilt with another vertex count
EnvSetNumVerts ==
    /\ pc = "idle"
    /\ \E n \in (0..MaxVerts) \ {numverts} :
          /\ numverts' = n
          /\ verts' = DefaultVerts(n)
    /\ frame' = [frame EXCEPT !.op = "env"]
    /\ UNCHANGED <<pc, springs, implicit, heap, parms, sres, contacts>>

\* the cloth's springs are rebuilt
EnvSetSprings ==
    /\ pc = "idle"
    /\ \E l \in InitSpringLists \ {springs} : springs' = l
    /\ frame' = [frame EXCEPT !.op = "env"]
    /\ UNCHANGED <<pc, numverts, verts, implicit, heap, parms, sres, contacts>>

\* BPH_cloth_solver_init
SolverInit ==
    /\ pc = "idle"
    /\ frame.ncalls < MaxCalls
    /\ heap.allocs < MaxAllocs
    /\ LET r == cloth_solver_init_data(implicit, heap, numverts, springs)
       IN  /\ implicit' = SetStates(r.implicit, verts, 0, TRUE)
           /\ heap' = r.heap
    /\ frame' = [op |-> "solver_init", ncalls |-> frame.ncalls + 1]
    /\ UNCHANGED <<pc, numverts, verts, springs, parms, sres, contacts>>

\* BPH_cloth_solver_set_positions
SolverSetPositions ==
    /\ pc = "idle"
    /\ frame.ncalls < MaxCalls
    /\ heap.allocs < MaxAllocs
    /\ LET r == cloth_solver_init_data(implicit, heap, numverts, springs)
       IN  /\ implicit' = SetStates(r.implicit, verts, 0, FALSE)
           /\ heap' = r.heap
    /\ frame' = [op |-> "set_positions", ncalls |-> frame.ncalls + 1]
    /\ UNCHANGED <<pc, numverts, verts, springs, parms, sres, contacts>>

\* BPH_cloth_solver_free
SolverFree ==
    /\ pc = "idle"
    /\ implicit' = NULL
    /\ heap' = IF implicit # NULL THEN [heap EXCEPT !.frees = @ + 1] ELSE heap
    /\ frame' = [frame EXCEPT !.op = "solver_free"]
    /\ UNCHANGED <<pc, numverts, verts, springs, parms, sres, contacts>>

NextInit ==
    \/ EnvSetNumVerts
    \/ EnvSetSprings
    \/ SolverInit
    \/ SolverSetPositions
    \/ SolverFree

SpecInit == InitInit /\ [][NextInit]_vars

\* the last operation was an entry point that ran cloth_solver_init_data
AfterInitData == frame.op \in {"solver_init", "set_positions"}

(* C7: after any sequence of changes of the vertex count and the spring    *)
(* list, each followed by cloth_solver_init_data, the solver's             *)
(* off-diagonal capacity equals cloth_count_nondiag_blocks of the current  *)
(* spring list.                                                            *)
C7_CapacityMatchesSprings ==
    (pc = "idle" /\ AfterInitData) =>
        implicit.scount = cloth_count_nondiag_blocks(springs)

(* C10: cloth_solver_init_data frees and re-creates the solver only when   *)
(* one exists with another vertex count, creates one only when none        *)
(* exists, and otherwise returns the same solver without freeing or        *)
(* allocating.                                                             *)
C10_ReallocOnlyOnVertexChange ==
    [][ (frame'.ncalls = frame.ncalls + 1) =>
          LET differs == implicit # NULL /\ implicit.numverts # numverts
          IN  /\ heap'.frees - heap.frees = (IF differs THEN 1 ELSE 0)
              /\ heap'.allocs - heap.allocs =
                    (IF differs \/ implicit = NULL THEN 1 ELSE 0)
              /\ (implicit # NULL /\ ~differs) => implicit'.id = implicit.id
              /\ implicit'.numverts = numverts ]_vars

\* a second call found the solver of the first call and kept it
C10_Witness ==
    /\ pc = "idle" /\ AfterInitData
    /\ frame.ncalls >= 2
    /\ heap.allocs = 1 /\ heap.frees = 0
    /\ implicit # NULL /\ implicit.id = 1

(***************************************************************************)
(* cloth_calc_spring_force and the spring loop of cloth_calc_force.        *)
(***************************************************************************)
\* BPH_mass_spring_clear_forces: forces, Jacobians and the count of
\* off-diagonal blocks in use are reset.
BPH_mass_spring_clear_forces(id) == [id EXCEPT !.num_blocks = 0]

\* a chain that tests the goal bit first
SpringRoutine_Mutant(type) ==
    IF HasBit(type, CLOTH_SPRING_TYPE_GOAL) THEN "goal"
    ELSE IF \/ HasBit(type, CLOTH_SPRING_TYPE_STRUCTURAL)
            \/ HasBit(type, CLOTH_SPRING_TYPE_SHEAR)
            \/ HasBit(type, CLOTH_SPRING_TYPE_SEWING)
    THEN IF HasBit(type, CLOTH_SPRING_TYPE_SEWING)
         THEN "linear_max_sewing" ELSE "linear"
    ELSE IF HasBit(type, CLOTH_SPRING_TYPE_BENDING) THEN "bending"
    ELSE IF HasBit(type, CLOTH_SPRING_TYPE_BENDING_ANG) THEN "bending_angular"
    ELSE "none"

\* The force routine a spring is dispatched to: the if / else-if chain on
\* the bits of s->type.  "linear_max_sewing" is the linear routine with the
\* force clamp parms->max_sewing, "linear" the one with the clamp 0.
SpringRoutine(type) ==
    IF \/ HasBit(type, CLOTH_SPRING_TYPE_STRUCTURAL)
       \/ HasBit(type, CLOTH_SPRING_TYPE_SHEAR)
       \/ HasBit(type, CLOTH_SPRING_TYPE_SEWING)
    THEN IF HasBit(type, CLOTH_SPRING_TYPE_SEWING)
         THEN "linear_max_sewing" ELSE "linear"
    ELSE IF HasBit(type, CLOTH_SPRING_TYPE_GOAL) THEN "goal"
    ELSE IF HasBit(type, CLOTH_SPRING_TYPE_BENDING) THEN "bending"
    ELSE IF HasBit(type, CLOTH_SPRING_TYPE_BENDING_ANG) THEN "bending_angular"
    ELSE "none"

\* Off-diagonal blocks a force routine takes from the solver: one for a
\* vertex pair, three for the three vertices of an angular bend, none for a
\* goal spring (one vertex).
BlocksRequested(routine) ==
    CASE routine \in {"linear", "linear_max_sewing", "bending"} -> 1
      [] routine = "bending_angular" -> 3
      [] OTHER -> 0

\* Taking n blocks: a request beyond the capacity is the fatal miscount.
BPH_mass_spring_add_blocks(id, n) ==
    [id EXCEPT !.num_blocks = @ + n,
               !.fatal = @ \/ (id.num_blocks + n > id.scount)]

\* cloth_calc_spring_force(clmd, s, time): the spring and the solver after
\* it, and the force routine it called.
cloth_calc_spring_force(s, id) ==
    LET routine == SpringRoutine(s.type)
        cleared == [s EXCEPT !.f = 0,
                             !.flags = ClearBit(@, CLOTH_SPRING_FLAG_NEEDED)]
    IN  IF routine = "none"
        THEN [spring |-> cleared, implicit |-> id, routine |-> routine]
        ELSE [spring |-> [cleared EXCEPT
                            !.flags = SetBit(@, CLOTH_SPRING_FLAG_NEEDED),
                            \* the angular routine is not handed s->f
                            !.f = IF routine = "bending_angular" THEN 0 ELSE 1],
              implicit |-> BPH_mass_spring_add_blocks(
                               id, BlocksRequested(routine)),
              routine |-> routine]

\* a loop that evaluates every spring
CalcForceLoopBody_Mutant(s, id) == cloth_calc_spring_force(s, id)

\* one iteration of the loop "calculate spring forces" of cloth_calc_force
CalcForceLoopBody(s, id) ==
    IF ~HasBit(s.flags, CLOTH_SPRING_FLAG_DEACTIVATE)
    THEN cloth_calc_spring_force(s, id)
    ELSE [spring |-> s, implicit |-> id, routine |-> "not_called"]

(***************************************************************************)
(* Specification SpecSprings: a solver is created for a spring list and    *)
(* one cloth_calc_force pass runs over the list.                           *)
(***************************************************************************)
SpringStates ==
    { ClothSpring(t, fl[1], fl[2]) :
        t \in SpringTypes,
        fl \in { <<0, 0>>, <<CLOTH_SPRING_FLAG_NEEDED, 1>>,
                 <<CLOTH_SPRING_FLAG_DEACTIVATE, 0>>,
                 <<CLOTH_SPRING_FLAG_DEACTIVATE + CLOTH_SPRING_FLAG_NEEDED, 1>> } }

InitSprings ==
    /\ pc = "solver_init"
    /\ numverts = MaxVerts
    /\ verts = DefaultVerts(numverts)
    /\ springs \in SeqsUpTo(SpringStates, MaxSprings)
    /\ implicit = NULL
    /\ heap = [allocs |-> 0, frees |-> 0]
    /\ parms = NoParms
    /\ sres = NoResult
    /\ frame = [link |-> 1, routine |-> "not_called"]
    /\ contacts = NoContacts

\* BPH_cloth_solver_init on the new cloth
SpringsSolverInit ==
    /\ pc = "solver_init"
    /\ LET r == cloth_solver_init_data(implicit, heap, numverts, springs)
       IN  /\ implicit' = SetStates(r.implicit, verts, 0, TRUE)
           /\ heap' = r.heap
    /\ pc' = "clear_forces"
    /\ UNCHANGED <<numverts, verts, springs, parms, sres, frame, contacts>>

\* BPH_mass_spring_clear_forces before the forces are accumulated
SpringsClearForces ==
    /\ pc = "clear_forces"
    /\ implicit' = BPH_mass_spring_clear_forces(implicit)
    /\ frame' = [link |-> 1, routine |-> "not_called"]
    /\ pc' = "calc_force"
    /\ UNCHANGED <<numverts, verts, springs, heap, parms, sres, contacts>>

\* cloth_calc_force: one spring of the list
SpringsCalcForce ==
    /\ pc = "calc_force"
    /\ frame.link <= Len(springs)
    /\ LET r == CalcForceLoopBody(springs[frame.link], implicit)
       IN  /\ springs' = [springs EXCEPT ![frame.link] = r.spring]
           /\ implicit' = r.implicit
           /\ frame' = [link |-> frame.link + 1, routine |-> r.routine]
    /\ UNCHANGED <<pc, numverts, verts, heap, parms, sres, contacts>>

\* cloth_calc_force: the end of the list
SpringsCalcForceEnd ==
    /\ pc = "calc_force"
    /\ frame.link > Len(springs)
    /\ pc' = "forces_done"
    /\ UNCHANGED <<numverts, verts, springs, implicit, heap, parms, sres,
                   frame, contacts>>

NextSprings ==
    \/ SpringsSolverInit
    \/ SpringsClearForces
    \/ SpringsCalcForce
    \/ SpringsCalcForceEnd

SpecSprings == InitSprings /\ [][NextSprings]_vars

(* C8: in one cloth_calc_force pass the off-diagonal blocks requested      *)
(* (dispatch by type bits) never exceed the capacity pre-counted by        *)
(* cloth_count_nondiag_blocks (classification by type equality) for the    *)
(* same spring list; the fatal miscount does not happen.                   *)
C8_BlocksWithinCapacity ==
    implicit # NULL =>
        /\ implicit.num_blocks <= implicit.scount
        /\ ~implicit.fatal

\* a pass that used every pre-counted block, an angular bend among them
C8_Witness ==
    /\ pc = "forces_done"
    /\ \E i \in DOMAIN springs :
          /\ springs[i].type = CLOTH_SPRING_TYPE_BENDING_ANG
          /\ ~HasBit(springs[i].flags, CLOTH_SPRING_FLAG_DEACTIVATE)
    /\ \E i \in DOMAIN springs : SpringRoutine(springs[i].type) = "linear"
    /\ implicit.num_blocks = implicit.scount
    /\ implicit.num_blocks >= 4

(* C9: for every spring list, the empty one included,                      *)
(* cloth_count_nondiag_blocks returns three times the number of springs of *)
(* type CLOTH_SPRING_TYPE_BENDING_ANG plus the number of all other springs.*)
C9_CountIsThreePerAngular ==
    implicit # NULL =>
        implicit.scount =
            3 * Cardinality({i \in DOMAIN springs :
                    springs[i].type = CLOTH_SPRING_TYPE_BENDING_ANG})
            + Cardinality({i \in DOMAIN springs :
                    springs[i].type # CLOTH_SPRING_TYPE_BENDING_ANG})

\* a solver sized for a list holding an angular bend and another spring
C9_Witness ==
    /\ pc = "clear_forces"
    /\ Len(springs) = 2
    /\ springs[1].type = CLOTH_SPRING_TYPE_BENDING_ANG
    /\ springs[2].type = CLOTH_SPRING_TYPE_BENDING_ANG + CLOTH_SPRING_TYPE_GOAL
    /\ implicit.scount = 4

(***************************************************************************)
(* Constraints: collision_response and cloth_setup_constraints.            *)
(***************************************************************************)
COLLISION_IN_FUTURE == 2

\* epsilon of the collider's BVH tree (BLI_bvhtree_getepsilon), an input
Epsilon2 == 1

\* A CollPair of a point contact: the cloth vertex (face1 and ap1), the
\* distance, the flag word, the normal and the collider's velocities.
CollPair(v, distance, flag, v2_old, v2_new) ==
    [face1 |-> v, ap1 |-> v, distance |-> distance, flag |-> flag,
     normal |-> 1, v2_old |-> v2_old, v2_new |-> v2_new]

\* a macro that leaves its argument as it is
CLAMP_Mutant(a, b, c) == a

\* CLAMP(a, b, c) of BLI_utildefines.h
CLAMP(a, b, c) == IF a < b THEN b ELSE IF a > c THEN c ELSE a

\* a test that also lets a vertex at rest relative to the collider through
MovingToward_Mutant(mag_v_rel) == mag_v_rel <= 0

\* "only valid when moving toward the collider": mag_v_rel < -ALMOST_ZERO.
\* ALMOST_ZERO is below the velocity unit, so this is mag_v_rel < 0.
MovingToward(mag_v_rel) == mag_v_rel < 0

\* collision_response: [result, impulse, repulse, bounce], the last two as
\* the function leaves them.  v1 is cloth->verts[ap1].v and inv_dt is 1 / dt.
collision_response(v1, collpair, epsilon2, inv_dt, restitution) ==
    LET margin_distance == collpair.distance - epsilon2
        v_rel_old == v1 - collpair.v2_old
        v_rel_new == v1 - collpair.v2_new
        mag_v_rel == v_rel_old * collpair.normal
        v_nor_new == v_rel_new * collpair.normal
        bounce    == (-mag_v_rel) * restitution
        repulse   == CLAMP((-margin_distance) * inv_dt, 0, 4 * bounce)
        rejected  == [result |-> FALSE, impulse |-> 0, repulse |-> 0,
                      bounce |-> 0]
    IN  IF margin_distance > 0 THEN rejected
        ELSE IF HasBit(collpair.flag, COLLISION_IN_FUTURE) THEN rejected
        ELSE IF MovingToward(mag_v_rel)
             THEN IF margin_distance < -epsilon2
                  THEN [result |-> TRUE,
                        impulse |-> collpair.normal
                                      * (Max(repulse, bounce) - v_nor_new),
                        repulse |-> repulse, bounce |-> bounce]
                  ELSE [result |-> TRUE,
                        impulse |-> collpair.normal * (repulse - v_nor_new),
                        repulse |-> repulse, bounce |-> 0]
        ELSE rejected

\* BPH_mass_spring_clear_constraints
BPH_mass_spring_clear_constraints(id) ==
    [id EXCEPT !.cons = [i \in 0..(id.numverts - 1) |-> NoConstraint],
               !.cons_log = <<>>]

\* BPH_mass_spring_add_constraint_ndof0(data, index, dV): the vertex's
\* velocity change is fixed to dV.  The log keeps the calls made.
BPH_mass_spring_add_constraint_ndof0(id, index, dV) ==
    [id EXCEPT !.cons = IF index \in DOMAIN id.cons
                        THEN [@ EXCEPT ![index] = [ndof |-> 0, dV |-> dV]]
                        ELSE @,
               !.fatal = @ \/ index \notin DOMAIN id.cons,
               !.cons_log = Append(@, [ndof |-> 0, index |-> index,
                                       dV |-> dV, contact |-> <<>>])]

\* BPH_mass_spring_add_constraint_ndof2(data, index, c1, dV): the
\* component along c1 is fixed to dV.  contact names the contact the call
\* was made for.
BPH_mass_spring_add_constraint_ndof2(id, index, dV, contact) ==
    [id EXCEPT !.cons = IF index \in DOMAIN id.cons
                        THEN [@ EXCEPT ![index] = [ndof |-> 2, dV |-> dV]]
                        ELSE @,
               !.fatal = @ \/ index \notin DOMAIN id.cons,
               !.cons_log = Append(@, [ndof |-> 2, index |-> index,
                                       dV |-> dV, contact |-> contact])]

\* the vertex index line 1162 registers the contact's constraint on
ConstraintIndex(i, v) == i

RECURSIVE SetupPinned(_, _, _, _)
\* the first loop of cloth_setup_constraints: [verts, implicit]
SetupPinned(vs, nv, id, v) ==
    IF v >= nv THEN [verts |-> vs, implicit |-> id]
    ELSE SetupPinned(
            [vs EXCEPT ![v].impulse_count = 0], nv,
            IF HasBit(vs[v].flags, CLOTH_VERT_FLAG_PINNED)
            THEN BPH_mass_spring_add_constraint_ndof0(id, v, 0) ELSE id,
            v + 1)

\* the body of the inner loop of cloth_setup_constraints for contact j of
\* collider i (both counted from 0): [verts, implicit]
SetupContact(vs, id, ctlist, i, j, inv_dt) ==
    LET collpair == ctlist[i + 1].collisions[j + 1]
        v == collpair.face1
        restitution == 0
        r == collision_response(vs[collpair.ap1].v, collpair, Epsilon2,
                                inv_dt, restitution)
    IN  IF HasBit(vs[v].flags, CLOTH_VERT_FLAG_PINNED)
        THEN [verts |-> vs, implicit |-> id]
        ELSE IF vs[v].impulse_count > 0
        THEN [verts |-> vs, implicit |-> id]
        ELSE IF ~r.result
        THEN [verts |-> vs, implicit |-> id]
        ELSE [verts |-> [vs EXCEPT ![v].impulse_count = @ + 1],
              implicit |-> BPH_mass_spring_add_constraint_ndof2(
                               id, ConstraintIndex(i, v), r.impulse, <<i, j>>)]

RECURSIVE SetupContacts(_, _, _, _, _, _, _)
\* the nested loops over colliders and their contacts
SetupContacts(vs, id, ctlist, totcolliders, i, j, inv_dt) ==
    IF i >= totcolliders THEN [verts |-> vs, implicit |-> id]
    ELSE IF j >= Len(ctlist[i + 1].collisions)
    THEN SetupContacts(vs, id, ctlist, totcolliders, i + 1, 0, inv_dt)
    ELSE LET r == SetupContact(vs, id, ctlist, i, j, inv_dt)
         IN  SetupContacts(r.verts, r.implicit, ctlist, totcolliders,
                           i, j + 1, inv_dt)

\* cloth_setup_constraints(clmd, contacts, totcolliders, dt): [verts, implicit]
cloth_setup_constraints(vs, nv, id, ctlist, totcolliders, inv_dt) ==
    LET p == SetupPinned(vs, nv, BPH_mass_spring_clear_constraints(id), 0)
    IN  SetupContacts(p.verts, p.implicit, ctlist, totcolliders, 0, 0, inv_dt)

(***************************************************************************)
(* Specification SpecSetup: contact detection hands over any contact       *)
(* lists and cloth_setup_constraints runs on them.                         *)
(***************************************************************************)
MaxColliders == 2
MaxContacts == 2

\* velocity of the cloth vertices in this specification: against the normal
ApproachV == 0 - 1

\* The contacts a vertex can have: at the margin, deeper than the margin,
\* outside it, flagged in the future, and with the collider moving away faster.
ContactsOfVertex(v) ==
    { CollPair(v, Epsilon2, 0, 0, 0),
      CollPair(v, 0 - Epsilon2 - 1, 0, 0, 1),
      CollPair(v, Epsilon2 + 1, 0, 0, 0),
      CollPair(v, Epsilon2, COLLISION_IN_FUTURE, 0, 0),
      CollPair(v, Epsilon2, 0, ApproachV - 1, 0) }

\* Contact lists of totcolliders colliders with at most n contacts in all.
ContactLists(nv, totcolliders, n) ==
    LET Pairs == UNION {ContactsOfVertex(v) : v \in 0..(nv - 1)}
        Flat  == { f \in SeqsUpTo((0..(totcolliders - 1)) \X Pairs, n) :
                     \A k \in 1..(Len(f) - 1) : f[k][1] <= f[k + 1][1] }
        Of(f, i) == SelectSeq(f, LAMBDA e : e[1] = i)
    IN  { [i \in 1..totcolliders |->
              [collisions |-> [k \in 1..Len(Of(f, i - 1)) |-> Of(f, i - 1)[k][2]]]]
          : f \in Flat }

InitSetup ==
    /\ pc = "find_contacts"
    /\ numverts = MaxVerts
    /\ verts \in [0..(numverts - 1) ->
                    { ClothVertex(fl, 0, ApproachV, 0, 0) :
                        fl \in {0, CLOTH_VERT_FLAG_PINNED} }]
    /\ springs = <<>>
    /\ implicit = SetStates(
            cloth_solver_init_data(NULL, [allocs |-> 0, frees |-> 0],
                                   numverts, springs).implicit,
            verts, 0, FALSE)
    /\ heap = [allocs |-> 1, frees |-> 0]
    /\ parms = NoParms
    /\ sres = NoResult
    /\ frame = [inv_dt |-> 1]
    /\ contacts = NoContacts

\* cloth_find_point_contacts: the collision collaborator returns the contacts
SetupFindContacts ==
    /\ pc = "find_contacts"
    /\ \E l \in ContactLists(numverts, MaxColliders, MaxContacts) :
          contacts' = [list |-> l, totcolliders |-> MaxColliders, live |-> TRUE,
                       ptr |-> TRUE, fault |-> FALSE]
    /\ pc' = "setup_constraints"
    /\ UNCHANGED <<numverts, verts, springs, implicit, heap, parms, sres, frame>>

\* cloth_setup_constraints
SetupConstraints ==
    /\ pc = "setup_constraints"
    /\ LET r == cloth_setup_constraints(verts, numverts, implicit,
                    contacts.list, contacts.totcolliders, frame.inv_dt)
       IN  /\ verts' = r.verts
           /\ implicit' = r.implicit
    /\ pc' = "setup_done"
    /\ UNCHANGED <<numverts, springs, heap, parms, sres, frame, contacts>>

NextSetup ==
    \/ SetupFindContacts
    \/ SetupConstraints

SpecSetup == InitSetup /\ [][NextSetup]_vars

\* contact j of collider i, both counted from 0
ContactAt(i, j) == contacts.list[i + 1].collisions[j + 1]

\* the contacts in iteration order: collider by collider, contact by contact
ContactOrder ==
    { <<i, j>> \in (0..(contacts.totcolliders - 1)) \X (0..(MaxContacts + 1)) :
        j < Len(contacts.list[i + 1].collisions) }

Before(c, d) == c[1] < d[1] \/ (c[1] = d[1] /\ c[2] < d[2])

\* a contact collision_response accepts, on a vertex that is not pinned
Acceptable(c) ==
    LET cp == ContactAt(c[1], c[2])
    IN  /\ ~HasBit(verts[cp.face1].flags, CLOTH_VERT_FLAG_PINNED)
        /\ collision_response(verts[cp.ap1].v, cp, Epsilon2, frame.inv_dt, 0).result

\* the first acceptable contact of its vertex
FirstAccepted(c) ==
    /\ c \in ContactOrder /\ Acceptable(c)
    /\ \A d \in ContactOrder :
          (ContactAt(d[1], d[2]).face1 = ContactAt(c[1], c[2]).face1
             /\ Acceptable(d)) => ~Before(d, c)

\* the collision-response constraints registered on solver vertex v
ResponsesOn(v) ==
    { k \in DOMAIN implicit.cons_log :
        implicit.cons_log[k].ndof = 2 /\ implicit.cons_log[k].index = v }

(* C2: after cloth_setup_constraints every vertex has received at most one *)
(* collision-response constraint, the one of the first accepted contact of *)
(* that vertex in iteration order; later contacts add nothing and every    *)
(* impulse_count is 0 or 1.                                                *)
C2_OneResponsePerVertex ==
    pc = "setup_done" =>
        \A v \in Verts :
            /\ Cardinality(ResponsesOn(v)) <= 1
            /\ \A k \in ResponsesOn(v) :
                  /\ FirstAccepted(implicit.cons_log[k].contact)
                  /\ ContactAt(implicit.cons_log[k].contact[1],
                               implicit.cons_log[k].contact[2]).face1 = v
            /\ (\E c \in ContactOrder :
                   FirstAccepted(c) /\ ContactAt(c[1], c[2]).face1 = v)
                  => ResponsesOn(v) # {}
            /\ verts[v].impulse_count \in {0, 1}

(* C3: for each accepted contact the two-degrees-of-freedom constraint is  *)
(* registered on the contact's own vertex, the vertex tested for pinning   *)
(* and whose impulse_count is incremented.                                 *)
C3_ConstraintOnContactVertex ==
    pc = "setup_done" =>
        \A k \in DOMAIN implicit.cons_log :
            implicit.cons_log[k].ndof = 2 =>
                implicit.cons_log[k].index =
                    ContactAt(implicit.cons_log[k].contact[1],
                              implicit.cons_log[k].contact[2]).face1

(***************************************************************************)
(* binary32 arithmetic.  Times and positions are multiples of 2^-27, which *)
(* holds every binary32 value the time loop produces; a sum or quotient is *)
(* rounded to the nearest binary32 value, ties to even.  Velocities and    *)
(* the positions xold and xconst are whole numbers.                        *)
(***************************************************************************)
One == 2^27

F32Mantissa == 2^23

RECURSIVE Pow2Floor(_, _)
\* the largest p * 2^k that is at most x
Pow2Floor(x, p) == IF 2 * p <= x THEN Pow2Floor(x, 2 * p) ELSE p

RoundHalfEven(num, den) ==
    LET q == num \div den
        r == num % den
    IN  IF 2 * r < den THEN q
        ELSE IF 2 * r > den THEN q + 1
        ELSE IF q % 2 = 0 THEN q ELSE q + 1

\* the binary32 value nearest to num / den, for num >= 0
F32(num, den) ==
    LET p   == Pow2Floor(num \div den, 1)
        ulp == IF p >= F32Mantissa THEN p \div F32Mantissa ELSE 1
    IN  RoundHalfEven(num, den * ulp) * ulp

F32S(num) == IF num < 0 THEN 0 - F32(0 - num, 1) ELSE F32(num, 1)

\* the whole number nearest to a fixed-point value
Whole(x) ==
    IF x < 0 THEN 0 - RoundHalfEven(0 - x, One) ELSE RoundHalfEven(x, One)

\* interp_v3_v3v3(target, a, b, t) for whole a and b: s * a + t * b with
\* s = 1 - t, each operation rounded
interp_v3_v3v3(a, b, t) ==
    LET s == F32S(One - t)
    IN  F32S(F32S(s * a) + F32S(t * b))

(***************************************************************************)
(* The per-frame result record: cloth_clear_result, cloth_record_result.   *)
(***************************************************************************)
BPH_SOLVER_SUCCESS == 1
BPH_SOLVER_NUMERICAL_ISSUE == 2
BPH_SOLVER_NO_CONVERGENCE == 4
BPH_SOLVER_INVALID_INPUT == 8

\* an assignment of b in place of a | b
BitOr_Mutant(a, b) == b

\* a | b on the four status bits
BitOr(a, b) ==
    LET B(k) == IF HasBit(a, k) \/ HasBit(b, k) THEN k ELSE 0
    IN  B(1) + B(2) + B(4) + B(8)

ImplicitSolverResult(status, iterations, error) ==
    [status |-> status, iterations |-> iterations, error |-> error]

\* the results a linear solve can report
AllResults ==
    { ImplicitSolverResult(BPH_SOLVER_SUCCESS, 1, 1),
      ImplicitSolverResult(BPH_SOLVER_SUCCESS, 2, 3),
      ImplicitSolverResult(BPH_SOLVER_NO_CONVERGENCE, 3, 5),
      ImplicitSolverResult(BPH_SOLVER_NUMERICAL_ISSUE, 1, 2) }

\* the bounds of sim_parms->stepsPerFrame in the two specifications of a
\* frame, and a step count at which the accumulated binary32 time drifts
MaxSteps == 2
DriftSteps == 12

StepsChoices == (1..MaxSteps) \cup {DriftSteps}

RECURSIVE GCD(_, _)
GCD(a, b) == IF b = 0 THEN a ELSE GCD(b, a % b)

RECURSIVE LcmOf(_)
LcmOf(S) ==
    IF S = {} THEN 1
    ELSE LET x == CHOOSE y \in S : TRUE
             l == LcmOf(S \ {x})
         IN  (x * l) \div GCD(x, l)

\* avg_error and avg_iterations are held in units of 1 / AvgScale, so that
\* x / steps is exact for every step count in use
AvgScale == LcmOf(StepsChoices)

AvgPart(x, steps) == x * (AvgScale \div steps)

\* a reset that only fills in a record that was just allocated
cloth_clear_result_Mutant(sr) ==
    IF sr = NULL
    THEN [status |-> 0, max_error |-> 0, min_error |-> 0, avg_error |-> 0,
          max_iterations |-> 0, min_iterations |-> 0, avg_iterations |-> 0]
    ELSE sr

cloth_clear_result(sr) ==
    [status |-> 0, max_error |-> 0, min_error |-> 0, avg_error |-> 0,
     max_iterations |-> 0, min_iterations |-> 0, avg_iterations |-> 0]

cloth_record_result(sr, result, steps) ==
    LET success == result.status = BPH_SOLVER_SUCCESS
        r_error == [sr EXCEPT
            !.min_error = IF ~success THEN @
                          ELSE IF sr.status # 0 THEN Min(@, result.error)
                          ELSE result.error,
            !.max_error = IF ~success THEN @
                          ELSE IF sr.status # 0 THEN Max(@, result.error)
                          ELSE result.error,
            !.avg_error = IF success THEN @ + AvgPart(result.error, steps)
                          ELSE @]
    IN  [r_error EXCEPT
            !.min_iterations = IF sr.status # 0 THEN Min(@, result.iterations)
                               ELSE result.iterations,
            !.max_iterations = IF sr.status # 0 THEN Max(@, result.iterations)
                               ELSE result.iterations,
            !.avg_iterations = @ + AvgPart(result.iterations, steps),
            !.status = BitOr(@, result.status)]

(***************************************************************************)
(* The solver calls of a substep.                                          *)
(***************************************************************************)
\* BPH_mass_spring_solve_velocities: a vertex with a constraint takes the
\* velocity change of the constraint, a free vertex the velocity u the
\* linear solve finds.
BPH_mass_spring_solve_velocities(id, u) ==
    [id EXCEPT !.Vnew = [i \in DOMAIN id.V |->
                            IF id.cons[i].ndof = 3 THEN u
                            ELSE id.V[i] + id.cons[i].dV]]

\* BPH_mass_spring_solve_positions: Xnew = X + Vnew * dt
BPH_mass_spring_solve_positions(id, dt) ==
    [id EXCEPT !.Xnew = [i \in DOMAIN id.X |-> F32S(id.X[i] + id.Vnew[i] * dt)]]

\* BPH_mass_spring_apply_result: X = Xnew, V = Vnew
BPH_mass_spring_apply_result(id) == [id EXCEPT !.X = id.Xnew, !.V = id.Vnew]

(***************************************************************************)
(* The pieces of BPH_cloth_solve.                                          *)
(***************************************************************************)
\* the loop "do goal stuff": pinned vertices get the velocity xconst - xold
GoalVelocities(id, vs, nv, goal) ==
    [id EXCEPT !.V = [i \in DOMAIN id.V |->
        IF goal /\ HasBit(vs[i].flags, CLOTH_VERT_FLAG_PINNED)
        THEN vs[i].xconst - vs[i].xold ELSE id.V[i]]]

\* "copy velocities for collision"
CopyVelocitiesOf(vs, id) ==
    [i \in DOMAIN vs |-> [vs[i] EXCEPT !.tv = id.V[i], !.v = id.V[i]]]

\* "damping velocity for artistic reasons": every vertex of the solver
DampVelocities(id, vel_damping) ==
    IF vel_damping # 1
    THEN [id EXCEPT !.V = [i \in DOMAIN id.V |-> id.V[i] * vel_damping]]
    ELSE id

RECURSIVE CalcForceFrom(_, _, _)
CalcForceFrom(list, id, k) ==
    IF k > Len(list) THEN [springs |-> list, implicit |-> id]
    ELSE LET r == CalcForceLoopBody(list[k], id)
         IN  CalcForceFrom([list EXCEPT ![k] = r.spring], r.implicit, k + 1)

\* cloth_calc_force: the spring loop (gravity, drag and wind take no blocks)
cloth_calc_force(list, id) == CalcForceFrom(list, id, 1)

\* cloth_continuum_step: with velocity smoothing or a density strength the
\* new velocity of every vertex becomes interp(v, nv, smoothfac), nv being
\* the velocity gridv the hair volume grid gives.
cloth_continuum_step(id, prm, gridv) ==
    IF prm.velocity_smooth > 0 \/ prm.density_strength > 0
    THEN [id EXCEPT !.Vnew = [i \in DOMAIN id.Vnew |->
             (1 - prm.velocity_smooth) * id.Vnew[i]
                 + prm.velocity_smooth * gridv]]
    ELSE id

\* cloth_collision_solve_extra: [verts, springs, implicit, solved].
\* cloth_bvh_objcollision either finds no collision, or stops every vertex
\* where it is (tx back at the current position) and returns
\* do_extra_solve; u is the velocity the extra linear solve finds for a
\* free vertex.
cloth_collision_solve_extra(vs, list, id, prm, do_extra_solve, u) ==
    IF ~prm.coll_enabled \/ ~prm.bvhtree
    THEN [verts |-> vs, springs |-> list, implicit |-> id, solved |-> FALSE]
    ELSE
    LET spf == prm.stepsPerFrame
        vs1 == [i \in DOMAIN vs |->
                  [vs[i] EXCEPT !.tx = id.Xnew[i],
                                !.tv = F32S(id.Xnew[i] - vs[i].txold),
                                !.v  = F32S(id.Xnew[i] - vs[i].txold)]]
        tx(i) == IF do_extra_solve THEN id.X[i] ELSE vs1[i].tx
        vs2 == [i \in DOMAIN vs |->
                  [vs1[i] EXCEPT !.tx = tx(i),
                                 !.tv = F32S(tx(i) - id.X[i])]]
        skip(i) == prm.goal /\ HasBit(vs2[i].flags, CLOTH_VERT_FLAG_PINNED)
        id1 == IF do_extra_solve
               THEN [id EXCEPT
                       !.Xnew = [i \in DOMAIN id.Xnew |->
                                   IF skip(i) THEN id.Xnew[i] ELSE vs2[i].tx],
                       !.Vnew = [i \in DOMAIN id.Vnew |->
                                   IF skip(i) THEN id.Vnew[i]
                                   ELSE Whole(F32S(vs2[i].tv * spf))]]
               ELSE id
        id2 == BPH_mass_spring_apply_result(id1)
        f   == cloth_calc_force(list, BPH_mass_spring_clear_forces(id2))
    IN  IF do_extra_solve
        THEN [verts |-> vs2, springs |-> f.springs,
              implicit |-> BPH_mass_spring_apply_result(
                               BPH_mass_spring_solve_velocities(f.implicit, u)),
              solved |-> TRUE]
        ELSE [verts |-> vs2, springs |-> list, implicit |-> id2,
              solved |-> FALSE]

\* "move pinned verts to correct position" and the copy to txold
MovePinnedVerts(vs, id, goal, t) ==
    LET id1 == [id EXCEPT !.X = [i \in DOMAIN id.X |->
                   IF goal /\ HasBit(vs[i].flags, CLOTH_VERT_FLAG_PINNED)
                   THEN interp_v3_v3v3(vs[i].xold, vs[i].xconst, t)
                   ELSE id.X[i]]]
    IN  [implicit |-> id1,
         verts |-> [i \in DOMAIN vs |-> [vs[i] EXCEPT !.txold = id1.X[i]]]]

\* "copy results back to cloth data"
CopyBack(vs, id) ==
    [i \in DOMAIN vs |-> [vs[i] EXCEPT !.x = id.X[i], !.v = id.V[i],
                                        !.txold = id.X[i]]]

\* a hair substep that takes the path of cloth after the solve
PcAfterSolve_Cloth(result, is_hair) == "positions"

\* a substep that commits right after the solve, without integrating
PcAfterSolve_Skip(result, is_hair) == "apply"

\* a frame that is given up when a solve fails
PcAfterSolve_Mutant(result, is_hair) ==
    IF result.status # BPH_SOLVER_SUCCESS THEN "done"
    ELSE IF is_hair THEN "continuum" ELSE "positions"

\* where control goes after the solve of a substep: the result is written
\* to the record and nothing branches on it
PcAfterSolve(result, is_hair) == IF is_hair THEN "continuum" ELSE "positions"

\* the locals of BPH_cloth_solve and the bookkeeping of a frame: substeps
\* completed, position integrations and commits of the main loop, linear
\* solves made, the statuses of all of them, the results recorded, and the
\* status the result record held when the call began
FrameLocals(step, tf, dt) ==
    [step |-> step, tf |-> tf, dt |-> dt, ret |-> 0,
     nsub |-> 0, npos |-> 0, napply |-> 0, nsolve |-> 0, nsetup |-> 0,
     prev_status |-> 0,
     all_status |-> 0, recorded |-> EmptyBag]

(***************************************************************************)
(* BPH_cloth_solve, one action per phase of a frame.                       *)
(***************************************************************************)
\* the velocities a linear solve, the hair grid or a collision can give
VelChoices == {0, 1}

\* the results of a linear solve in the specification of the whole frame
SolveResults ==
    { r \in AllResults : r.error # 3 }

\* a release that does nothing
cloth_free_contacts_Mutant(ct) == ct

\* cloth_free_contacts(contacts, totcolliders): the set is released, the
\* caller's pointer stays as it is
cloth_free_contacts(ct) ==
    [ct EXCEPT !.list = <<>>, !.live = FALSE, !.fault = @ \/ ~ct.live]

\* what cloth_find_point_contacts can return: no contacts, or one collider
\* in contact with one vertex that it pushes along
SolveContacts(nv) ==
    {NoContacts} \cup
    { [list |-> << [collisions |->
                      << CollPair(v, 0 - Epsilon2 - 1, 0, 2, 2) >>] >>,
       totcolliders |-> 1, live |-> TRUE, ptr |-> TRUE, fault |-> FALSE] :
         v \in 0..(nv - 1) }

\* entry of BPH_cloth_solve up to the loop
FrameStart ==
    /\ pc = "frame_start"
    /\ sres' = cloth_clear_result(sres)
    /\ implicit' = GoalVelocities(implicit, verts, numverts, parms.goal)
    /\ frame' = [FrameLocals(0, parms.timescale,
                             F32(parms.timescale, parms.stepsPerFrame))
                    EXCEPT !.prev_status = IF sres = NULL THEN 0
                                           ELSE sres.status]
    /\ contacts' = NoContacts
    /\ pc' = "loop"
    /\ UNCHANGED <<numverts, verts, springs, heap, parms>>

\* while (step < tf): the copy of the velocities for collision
CopyVelocities ==
    /\ pc = "loop"
    /\ frame.step < frame.tf
    /\ verts' = CopyVelocitiesOf(verts, implicit)
    /\ pc' = IF parms.is_hair THEN "find_contacts" ELSE "setup_constraints"
    /\ UNCHANGED <<numverts, springs, implicit, heap, parms, sres, frame,
                   contacts>>

\* hair: "determine contact points"
FindContacts ==
    /\ pc = "find_contacts"
    /\ IF parms.coll_enabled
       THEN contacts' \in { [c EXCEPT !.fault = contacts.fault \/ contacts.live] :
                               c \in SolveContacts(numverts) }
       ELSE UNCHANGED contacts
    /\ pc' = "setup_constraints"
    /\ UNCHANGED <<numverts, verts, springs, implicit, heap, parms, sres,
                   frame>>

\* cloth_setup_constraints with the contacts (hair) or with NULL, 0 (cloth)
SolveSetupConstraints ==
    /\ pc = "setup_constraints"
    /\ LET r == IF parms.is_hair
                THEN cloth_setup_constraints(verts, numverts, implicit,
                         contacts.list, contacts.totcolliders,
                         parms.stepsPerFrame)
                ELSE cloth_setup_constraints(verts, numverts, implicit,
                         <<>>, 0, parms.stepsPerFrame)
       IN  /\ verts' = r.verts
           /\ implicit' = r.implicit
    /\ contacts' = [contacts EXCEPT !.fault =
                       @ \/ (parms.is_hair /\ contacts.ptr /\ ~contacts.live)]
    /\ frame' = [frame EXCEPT !.nsetup = @ + 1]
    /\ pc' = "clear_forces"
    /\ UNCHANGED <<numverts, springs, heap, parms, sres>>

\* "initialize forces to zero"
ClearForces ==
    /\ pc = "clear_forces"
    /\ implicit' = BPH_mass_spring_clear_forces(implicit)
    /\ pc' = "damping"
    /\ UNCHANGED <<numverts, verts, springs, heap, parms, sres, frame,
                   contacts>>

\* the vel_damping block
VelDamping ==
    /\ pc = "damping"
    /\ implicit' = DampVelocities(implicit, parms.vel_damping)
    /\ pc' = "calc_force"
    /\ UNCHANGED <<numverts, verts, springs, heap, parms, sres, frame,
                   contacts>>

\* cloth_calc_force
CalcForce ==
    /\ pc = "calc_force"
    /\ LET r == cloth_calc_force(springs, implicit)
       IN  /\ springs' = r.springs
           /\ implicit' = r.implicit
    /\ pc' = "solve"
    /\ UNCHANGED <<numverts, verts, heap, parms, sres, frame, contacts>>

\* BPH_mass_spring_solve_velocities and cloth_record_result
SolveVelocities(Results) ==
    /\ pc = "solve"
    /\ \E result \in Results, u \in VelChoices :
          /\ implicit' = BPH_mass_spring_solve_velocities(implicit, u)
          /\ sres' = cloth_record_result(sres, result, parms.stepsPerFrame)
          /\ frame' = [frame EXCEPT
                          !.nsolve = @ + 1,
                          !.all_status = BitOr(@, result.status),
                          !.recorded = @ (+) SetToBag({result})]
          /\ pc' = PcAfterSolve(result, parms.is_hair)
    /\ UNCHANGED <<numverts, verts, springs, heap, parms, contacts>>

\* hair: cloth_continuum_step
ContinuumStep ==
    /\ pc = "continuum"
    /\ \E gridv \in VelChoices :
          implicit' = cloth_continuum_step(implicit, parms, gridv)
    /\ pc' = "positions"
    /\ UNCHANGED <<numverts, verts, springs, heap, parms, sres, frame,
                   contacts>>

\* BPH_mass_spring_solve_positions
SolvePositions ==
    /\ pc = "positions"
    /\ implicit' = BPH_mass_spring_solve_positions(implicit, frame.dt)
    /\ frame' = [frame EXCEPT !.npos = @ + 1]
    /\ pc' = IF parms.is_hair THEN "apply" ELSE "extra"
    /\ UNCHANGED <<numverts, verts, springs, heap, parms, sres, contacts>>

\* cloth: cloth_collision_solve_extra; the result of its solve is dropped
CollisionSolveExtra(Results) ==
    /\ pc = "extra"
    /\ \E do_extra_solve \in BOOLEAN, result \in Results :
          LET r == cloth_collision_solve_extra(verts, springs, implicit,
                       parms, do_extra_solve, 0)
          IN  /\ verts' = r.verts
              /\ springs' = r.springs
              /\ implicit' = r.implicit
              /\ frame' = IF r.solved
                          THEN [frame EXCEPT
                                  !.nsolve = @ + 1,
                                  !.all_status = BitOr(@, result.status)]
                          ELSE frame
    /\ pc' = "apply"
    /\ UNCHANGED <<numverts, heap, parms, sres, contacts>>

\* BPH_mass_spring_apply_result of the main loop
ApplyResult ==
    /\ pc = "apply"
    /\ implicit' = BPH_mass_spring_apply_result(implicit)
    /\ frame' = [frame EXCEPT !.napply = @ + 1]
    /\ pc' = "pins"
    /\ UNCHANGED <<numverts, verts, springs, heap, parms, sres, contacts>>

\* "move pinned verts to correct position"
MovePinned ==
    /\ pc = "pins"
    /\ LET r == MovePinnedVerts(verts, implicit, parms.goal,
                                F32S(frame.step + frame.dt))
       IN  /\ verts' = r.verts
           /\ implicit' = r.implicit
    /\ pc' = "free_contacts"
    /\ UNCHANGED <<numverts, springs, heap, parms, sres, frame, contacts>>

\* "free contact points" and step += dt
FreeContacts ==
    /\ pc = "free_contacts"
    /\ contacts' = IF contacts.ptr THEN cloth_free_contacts(contacts)
                   ELSE contacts
    /\ frame' = [frame EXCEPT !.step = F32S(frame.step + frame.dt),
                              !.nsub = @ + 1]
    /\ pc' = "loop"
    /\ UNCHANGED <<numverts, verts, springs, implicit, heap, parms, sres>>

\* the loop is left: the copy back and return 1
FrameEnd ==
    /\ pc = "loop"
    /\ ~(frame.step < frame.tf)
    /\ verts' = CopyBack(verts, implicit)
    /\ frame' = [frame EXCEPT !.ret = 1]
    /\ pc' = "done"
    /\ UNCHANGED <<numverts, springs, implicit, heap, parms, sres, contacts>>

(***************************************************************************)
(* Specification Spec: one frame of BPH_cloth_solve on a cloth or a hair   *)
(* system of MaxVerts vertices, pinned or free, joined by one spring.      *)
(***************************************************************************)
ClothParms(is_hair, coll_enabled, bvhtree, goal, steps, vel_damping, smooth) ==
    [is_hair |-> is_hair, coll_enabled |-> coll_enabled, bvhtree |-> bvhtree,
     goal |-> goal, stepsPerFrame |-> steps, vel_damping |-> vel_damping,
     velocity_smooth |-> smooth, density_strength |-> 0, timescale |-> One]

\* hair with and without collisions and smoothing; cloth without collisions,
\* with collisions, and with collisions but no BVH tree
BodyKinds ==
    { <<TRUE, c, TRUE, s>> : c \in BOOLEAN, s \in {0, 1} }
    \cup { <<FALSE, FALSE, TRUE, 0>>, <<FALSE, TRUE, TRUE, 0>>,
           <<FALSE, TRUE, FALSE, 0>> }

\* a vertex at the origin: pinned with its target one unit away, or free
SolveVertex(pinned) ==
    IF pinned THEN ClothVertex(CLOTH_VERT_FLAG_PINNED, 0, 0, 0, 1)
    ELSE ClothVertex(0, 0, 0, 0, 0)

\* the solver after BPH_cloth_solver_init and BPH_cloth_solver_set_positions
SolverFor(nv, vs, list) ==
    SetStates(cloth_solver_init_data(NULL, [allocs |-> 0, frees |-> 0],
                                     nv, list).implicit,
              vs, 0, FALSE)

Init ==
    /\ pc = "frame_start"
    /\ numverts = MaxVerts
    /\ verts \in [0..(numverts - 1) -> {SolveVertex(p) : p \in BOOLEAN}]
    /\ springs = << ClothSpring(CLOTH_SPRING_TYPE_STRUCTURAL, 0, 0) >>
    /\ implicit = SolverFor(numverts, verts, springs)
    /\ heap = [allocs |-> 1, frees |-> 0]
    /\ \E b \in BodyKinds, goal \in BOOLEAN, steps \in 1..MaxSteps,
          vel_damping \in {0, 1} :
          parms = ClothParms(b[1], b[2], b[3], goal, steps, vel_damping, b[4])
    /\ sres = NoResult
    /\ frame = FrameLocals(0, 0, 0)
    /\ contacts = NoContacts

Next ==
    \/ FrameStart
    \/ CopyVelocities
    \/ FindContacts
    \/ SolveSetupConstraints
    \/ ClearForces
    \/ VelDamping
    \/ CalcForce
    \/ SolveVelocities(SolveResults)
    \/ ContinuumStep
    \/ SolvePositions
    \/ CollisionSolveExtra(SolveResults)
    \/ ApplyResult
    \/ MovePinned
    \/ FreeContacts
    \/ FrameEnd

Spec == Init /\ [][Next]_vars

\* the pinned vertices of a frame with the goal flag
Pinned == { i \in Verts : HasBit(verts[i].flags, CLOTH_VERT_FLAG_PINNED) }

(* C1: with the goal flag, after every committed substep every pinned      *)
(* vertex has exactly its prescribed velocity xconst - xold and stands     *)
(* exactly on its pin target, whatever the damping factor, the smoothing   *)
(* and the contacts.                                                        *)
C1_PinnedKeepPrescribedMotion ==
    (parms.goal /\ pc \in {"loop", "done"} /\ frame.nsub >= 1) =>
        \A i \in Pinned :
            /\ implicit.V[i] = verts[i].xconst - verts[i].xold
            /\ implicit.X[i] =
                   interp_v3_v3v3(verts[i].xold, verts[i].xconst, frame.step)

(* C5: whatever the solves report, the frame is left only through the end  *)
(* of its loop: every substep integrated the positions and committed them, *)
(* the final state is copied back to the vertices, 1 is returned, and each *)
(* reported status is in the aggregated status.                            *)
C5_FrameNeverAborts ==
    pc = "done" =>
        /\ frame.ret = 1
        /\ ~(frame.step < frame.tf)
        /\ frame.nsub >= parms.stepsPerFrame
        /\ frame.npos = frame.nsub
        /\ frame.napply = frame.nsub
        /\ BagCardinality(frame.recorded) = frame.nsub
        /\ \A i \in Verts :
              /\ verts[i].x = implicit.X[i]
              /\ verts[i].v = implicit.V[i]
              /\ verts[i].txold = implicit.X[i]
        /\ \A r \in BagToSet(frame.recorded) : HasBit(sres.status, r.status)

\* a frame of two substeps whose first solve did not converge and whose
\* second produced a numerical issue has run to its end
C5_Witness ==
    /\ pc = "done"
    /\ frame.ret = 1
    /\ frame.nsub = 2
    /\ sres.status = BPH_SOLVER_NO_CONVERGENCE + BPH_SOLVER_NUMERICAL_ISSUE

(* C6: the status of every linear solve made during the frame, the extra   *)
(* solve of cloth_collision_solve_extra included, is in the aggregated     *)
(* status the caller reads.                                                *)
C6_EverySolveRecorded ==
    pc = "done" =>
        /\ BagCardinality(frame.recorded) = frame.nsolve
        /\ sres.status = frame.all_status

(***************************************************************************)
(* Specification SpecStats: one frame of a cloth with one pinned vertex    *)
(* and no collisions, for every sequence of solve results and for step     *)
(* counts up to MaxSteps and DriftSteps.                                   *)
(***************************************************************************)
InitStats ==
    /\ pc = "frame_start"
    /\ numverts = 1
    /\ verts = [i \in 0..(numverts - 1) |-> SolveVertex(TRUE)]
    /\ springs = <<>>
    /\ implicit = SolverFor(numverts, verts, springs)
    /\ heap = [allocs |-> 1, frees |-> 0]
    /\ \E steps \in StepsChoices, timescale \in {One, One \div 2} :
          parms = [ClothParms(FALSE, FALSE, FALSE, TRUE, steps, 1, 0)
                      EXCEPT !.timescale = timescale]
    /\ sres = NoResult
    /\ frame = FrameLocals(0, 0, 0)
    /\ contacts = NoContacts

NextStats ==
    \/ FrameStart
    \/ CopyVelocities
    \/ SolveSetupConstraints
    \/ ClearForces
    \/ VelDamping
    \/ CalcForce
    \/ SolveVelocities(AllResults)
    \/ SolvePositions
    \/ CollisionSolveExtra(AllResults)
    \/ ApplyResult
    \/ MovePinned
    \/ FreeContacts
    \/ FrameEnd

SpecStats == InitStats /\ [][NextStats]_vars

RECURSIVE SumOver(_, _)
\* the sum of w[x] over x in S
SumOver(S, w) ==
    IF S = {} THEN 0
    ELSE LET x == CHOOSE y \in S : TRUE
         IN  w[x] + SumOver(S \ {x}, w)

\* the sums of the errors and of the iteration counts of the recorded solves
SumOfErrors(b) ==
    SumOver(BagToSet(b), [r \in BagToSet(b) |-> CopiesIn(r, b) * r.error])

SumOfIterations(b) ==
    SumOver(BagToSet(b), [r \in BagToSet(b) |-> CopiesIn(r, b) * r.iterations])

(* C4: after a frame in which every substep's solve reported success,      *)
(* avg_error and avg_iterations are the arithmetic means of the substeps'  *)
(* errors and iteration counts, and min/max error and iterations are the   *)
(* substeps' extremes.                                                     *)
C4_AggregateIsMeanAndExtremes ==
    (/\ pc = "done"
     /\ \A r \in BagToSet(frame.recorded) : r.status = BPH_SOLVER_SUCCESS) =>
        LET rs == BagToSet(frame.recorded)
            n  == frame.nsub
        IN  /\ sres.avg_error * n = AvgScale * SumOfErrors(frame.recorded)
            /\ sres.avg_iterations * n =
                   AvgScale * SumOfIterations(frame.recorded)
            /\ \E r \in rs : sres.min_error = r.error
            /\ \A r \in rs : sres.min_error <= r.error
            /\ \E r \in rs : sres.max_error = r.error
            /\ \A r \in rs : sres.max_error >= r.error
            /\ \E r \in rs : sres.min_iterations = r.iterations
            /\ \A r \in rs : sres.min_iterations <= r.iterations
            /\ \E r \in rs : sres.max_iterations = r.iterations
            /\ \A r \in rs : sres.max_iterations >= r.iterations

(***************************************************************************)
(* Specification SpecEntry: the entry points of SpecInit and the entry of  *)
(* BPH_cloth_solve, called in any order while the cloth is rebuilt.        *)
(***************************************************************************)
\* the solver BPH_cloth_solve works on fits the cloth
SolverFits(impl, totvert) ==
    impl # NULL /\ BPH_mass_spring_solver_numvert(impl) = totvert

\* BPH_cloth_solve: id = cloth->implicit is taken as it is, the result
\* record is made and cleared, and the frame runs on id.  On a missing
\* solver or one of another size the frame's reads and writes are undefined:
\* the call may fault or come back.
SolverSolve ==
    /\ pc = "idle"
    /\ sres' = cloth_clear_result(sres)
    /\ frame' = [frame EXCEPT !.op = "solve"]
    /\ IF SolverFits(implicit, numverts)
       THEN pc' = "idle"
       ELSE pc' \in {"idle", "fault"}
    /\ UNCHANGED <<numverts, verts, springs, implicit, heap, parms, contacts>>

NextEntry ==
    \/ EnvSetNumVerts
    \/ EnvSetSprings
    \/ SolverInit
    \/ SolverSetPositions
    \/ SolverFree
    \/ SolverSolve

SpecEntry == InitInit /\ [][NextEntry]_vars

(* C11: whatever the order of BPH_cloth_solver_init,                       *)
(* BPH_cloth_solver_set_positions, BPH_cloth_solver_free, BPH_cloth_solve  *)
(* and changes of the vertex count, an entry point that has run worked on  *)
(* a solver that exists and has cloth->numverts vertices.                  *)
C11_EntryPointsWorkOnFittingSolver ==
    frame.op \in {"solver_init", "set_positions", "solve"} =>
        SolverFits(implicit, numverts)

(***************************************************************************)
(* Specification SpecResponse: collision_response on one contact of one    *)
(* free vertex, for every distance, flag, normal, velocity, time step and  *)
(* restitution in range, followed by cloth_setup_constraints on it.        *)
(***************************************************************************)
MaxDist == 3
MaxVel == 2

ResponsePairs ==
    { [CollPair(0, d, fl, vo, vn) EXCEPT !.normal = n] :
        d \in (0 - MaxDist)..MaxDist, fl \in {0, COLLISION_IN_FUTURE},
        vo \in {0 - 1, 0, 1}, vn \in {0 - 1, 0, 1}, n \in {0 - 1, 1} }

InitResponse ==
    /\ pc = "response"
    /\ numverts = 1
    /\ \E v1 \in (0 - MaxVel)..MaxVel :
          verts = [i \in 0..(numverts - 1) |-> ClothVertex(0, 0, v1, 0, 0)]
    /\ springs = <<>>
    /\ implicit = SolverFor(numverts, verts, springs)
    /\ heap = [allocs |-> 1, frees |-> 0]
    /\ parms = NoParms
    /\ sres = NoResult
    /\ \E inv_dt \in {1, 2}, restitution \in {0, 1} :
          frame = [inv_dt |-> inv_dt, restitution |-> restitution,
                   out |-> NULL]
    /\ \E cp \in ResponsePairs :
          contacts = [list |-> << [collisions |-> <<cp>>] >>,
                      totcolliders |-> 1, live |-> TRUE, ptr |-> TRUE,
                      fault |-> FALSE]

\* collision_response(clmd, collmd, collpair, dt, restitution, r_impulse)
Respond ==
    /\ pc = "response"
    /\ LET cp == contacts.list[1].collisions[1]
       IN  frame' = [frame EXCEPT !.out =
                        collision_response(verts[cp.ap1].v, cp, Epsilon2,
                                           frame.inv_dt, frame.restitution)]
    /\ pc' = "response_setup"
    /\ UNCHANGED <<numverts, verts, springs, implicit, heap, parms, sres,
                   contacts>>

\* cloth_setup_constraints on the contact
RespondSetup ==
    /\ pc = "response_setup"
    /\ LET r == cloth_setup_constraints(verts, numverts, implicit,
                    contacts.list, contacts.totcolliders, frame.inv_dt)
       IN  /\ verts' = r.verts
           /\ implicit' = r.implicit
    /\ pc' = "response_done"
    /\ UNCHANGED <<numverts, springs, heap, parms, sres, frame, contacts>>

NextResponse ==
    \/ Respond
    \/ RespondSetup

SpecResponse == InitResponse /\ [][NextResponse]_vars

\* the contact of SpecResponse and what the source computes from it
TheContact == contacts.list[1].collisions[1]

MarginDistance == TheContact.distance - Epsilon2

NormalVelOld == (verts[0].v - TheContact.v2_old) * TheContact.normal

NormalVelNew == (verts[0].v - TheContact.v2_new) * TheContact.normal

(* C12: for an accepted contact the repulsion term is -margin_distance/dt  *)
(* clamped into [0, 4 * bounce], bounce being restitution times the inward *)
(* old normal velocity; when margin_distance >= -epsilon2 bounce ends as   *)
(* zero and the impulse along the normal is the repulsion term minus the   *)
(* new normal relative velocity.                                           *)
C12_RepulsionClamped ==
    (pc # "response" /\ frame.out.result) =>
        LET bounce == frame.restitution * (0 - NormalVelOld)
            raw    == (0 - MarginDistance) * frame.inv_dt
        IN  /\ 0 <= frame.out.repulse
            /\ frame.out.repulse <= 4 * bounce
            /\ frame.out.repulse = Min(Max(raw, 0), 4 * bounce)
            /\ MarginDistance >= 0 - Epsilon2 =>
                  /\ frame.out.bounce = 0
                  /\ frame.out.impulse =
                        TheContact.normal * (frame.out.repulse - NormalVelNew)

\* an accepted shallow contact whose repulsion was cut down to 4 * bounce,
\* which is zero without restitution, and which still gets an impulse
C12_Witness ==
    /\ pc = "response_done"
    /\ frame.out.result
    /\ MarginDistance >= 0 - Epsilon2
    /\ (0 - MarginDistance) * frame.inv_dt > frame.out.repulse
    /\ frame.out.repulse = 4 * frame.restitution * (0 - NormalVelOld)
    /\ frame.out.impulse # 0

(* C13: collision_response accepts a contact only if it is not flagged     *)
(* COLLISION_IN_FUTURE, its margin distance is not positive and the old    *)
(* relative velocity along the normal is below -ALMOST_ZERO; otherwise it  *)
(* returns false with a zero impulse, and cloth_setup_constraints adds no  *)
(* constraint and leaves impulse_count unchanged.                          *)
C13_AcceptedOnlyWhenApproaching ==
    LET ok == /\ ~HasBit(TheContact.flag, COLLISION_IN_FUTURE)
              /\ MarginDistance <= 0
              /\ NormalVelOld < 0
    IN  /\ (pc # "response" /\ frame.out.result) => ok
        /\ (pc # "response" /\ ~ok) =>
              (~frame.out.result /\ frame.out.impulse = 0)
        /\ (pc = "response_done" /\ ~ok) =>
              /\ implicit.cons_log = <<>>
              /\ verts[0].impulse_count = 0

\* a contact inside the margin, approached, but flagged in the future
C13_Witness ==
    /\ pc = "response_done"
    /\ HasBit(TheContact.flag, COLLISION_IN_FUTURE)
    /\ MarginDistance <= 0 /\ NormalVelOld < 0
    /\ ~frame.out.result
    /\ implicit.cons_log = <<>>

(* C14: for stepsPerFrame >= 1 and timescale > 0 the loop of               *)
(* BPH_cloth_solve ends after exactly stepsPerFrame substeps of size       *)
(* dt = timescale / stepsPerFrame.                                         *)
C14_ExactlyStepsPerFrameSubsteps ==
    /\ pc # "frame_start" =>
          frame.dt = F32(parms.timescale, parms.stepsPerFrame)
    /\ pc = "done" => frame.nsub = parms.stepsPerFrame

(* C16: with the goal flag every pinned vertex is moved at the end of each *)
(* substep along the line from xold to xconst, and after the last substep  *)
(* of the frame it stands on xconst, for every stepsPerFrame >= 1 and      *)
(* every timescale > 0.                                                    *)
C16_PinnedEndsOnXconst ==
    (parms.goal /\ pc = "done") =>
        \A i \in Pinned : /\ implicit.X[i] = One * verts[i].xconst
                          /\ verts[i].x = One * verts[i].xconst

(***************************************************************************)
(* BPH_strands_solve on one strand whose root is vertex 0.  The world      *)
(* matrix is the identity, a frame lasts one time unit, the state          *)
(* positions are fixed-point and the rest position of the root is whole.   *)
(***************************************************************************)
MaxSubsteps == 3
MaxTimescale == 2

\* strands_setup_constraints: the contacts part is compiled out
strands_setup_constraints(id) ==
    BPH_mass_spring_add_constraint_ndof0(
        BPH_mass_spring_clear_constraints(id), 0, 0)

\* strands_calc_root_velocity: (verts[0].co - state[0].co) / timestep
strands_calc_root_velocity(vs, id, timestep) ==
    [id EXCEPT !.V[0] = (vs[0].xconst - Whole(vs[0].x)) \div timestep]

\* strands_calc_root_location: interp(state[0].co, verts[0].co, step)
strands_calc_root_location(vs, id, step) ==
    [id EXCEPT !.X[0] = interp_v3_v3v3(Whole(vs[0].x), vs[0].xconst, step)]

\* a loop body that commits before it integrates
StrandsPhases_Mutant ==
    << "setup_constraints", "clear_forces", "calc_force", "solve_velocities",
       "apply_result", "solve_positions", "root_location" >>

\* the calls of one pass through the loop body, in the order of the source
StrandsPhases ==
    << "setup_constraints", "clear_forces", "calc_force", "solve_velocities",
       "solve_positions", "apply_result", "root_location" >>

InitStrands ==
    /\ pc = "strands_start"
    /\ numverts \in 1..MaxVerts
    /\ \E target \in {0, MaxTimescale} :
          verts = [i \in 0..(numverts - 1) |->
                      ClothVertex(0, 0, 0, 0, IF i = 0 THEN target ELSE 0)]
    /\ springs = <<>>
    /\ implicit = SolverFor(numverts, verts, springs)
    /\ heap = [allocs |-> 1, frees |-> 0]
    /\ \E timescale \in 0..MaxTimescale, substeps \in 0..MaxSubsteps :
          parms = [timescale |-> timescale, substeps |-> substeps]
    /\ sres = NoResult
    /\ frame = [step |-> 0, dstep |-> 0, dtime |-> 0, timestep |-> 0,
                nsub |-> 0, log |-> <<>>, root_step |-> 0]
    /\ contacts = NoContacts

\* a test that also turns down a single substep
StrandsRefuses_Mutant(p) == p.timescale = 0 \/ p.substeps < 2

\* the test at the top of BPH_strands_solve
StrandsRefuses(p) == p.timescale = 0 \/ p.substeps < 1

\* the entry of BPH_strands_solve up to its loop
StrandsSolveStart ==
    /\ pc = "strands_start"
    /\ IF StrandsRefuses(parms)
       THEN /\ pc' = "strands_refused"
            /\ UNCHANGED <<implicit, frame>>
       ELSE LET timestep == parms.timescale
                dstep    == F32(One, parms.substeps)
            IN  /\ frame' = [frame EXCEPT !.timestep = timestep,
                                          !.dstep = dstep,
                                          !.dtime = F32S(timestep * dstep)]
                /\ implicit' = strands_calc_root_velocity(
                                   verts, SetStates(implicit, verts, 0, FALSE),
                                   timestep)
                /\ pc' = "strands_loop"
    /\ UNCHANGED <<numverts, verts, springs, heap, parms, sres, contacts>>

\* one pass through the body of for (step = 0; step < 1; step += dstep),
\* whose last statement is step += dstep too
StrandsSubstep ==
    /\ pc = "strands_loop"
    /\ frame.step < One
    /\ \E u \in VelChoices :
          LET id1 == BPH_mass_spring_clear_forces(
                         strands_setup_constraints(implicit))
              id2 == BPH_mass_spring_solve_velocities(id1, u)
              id3 == BPH_mass_spring_apply_result(
                         BPH_mass_spring_solve_positions(id2, frame.dtime))
          IN  implicit' = strands_calc_root_location(
                              verts, id3, F32S(frame.step + frame.dstep))
    /\ frame' = [frame EXCEPT
                    !.step = F32S(F32S(@ + frame.dstep) + frame.dstep),
                    !.nsub = @ + 1,
                    !.log = @ \o StrandsPhases,
                    !.root_step = F32S(frame.step + frame.dstep)]
    /\ UNCHANGED <<pc, numverts, verts, springs, heap, parms, sres, contacts>>

\* "copy results back to strand data" and return true
StrandsSolveEnd ==
    /\ pc = "strands_loop"
    /\ ~(frame.step < One)
    /\ verts' = [i \in DOMAIN verts |->
                    [verts[i] EXCEPT !.x = implicit.X[i], !.v = implicit.V[i]]]
    /\ pc' = "strands_done"
    /\ UNCHANGED <<numverts, springs, implicit, heap, parms, sres, frame,
                   contacts>>

NextStrands ==
    \/ StrandsSolveStart
    \/ StrandsSubstep
    \/ StrandsSolveEnd

SpecStrands == InitStrands /\ [][NextStrands]_vars

(* C15: with params->substeps = n >= 1 and a non-zero timescale            *)
(* BPH_strands_solve performs exactly n substeps, each of size             *)
(* dtime = timestep / n.                                                   *)
C15_StrandsExactlyNSubsteps ==
    pc = "strands_done" =>
        /\ frame.nsub = parms.substeps
        /\ frame.dtime = F32(frame.timestep * One, parms.substeps)

(* C17: in BPH_cloth_solve a contact set found by cloth_find_point_contacts *)
(* is used only by the constraint setup of its substep and is released     *)
(* exactly once before the next detection and before the function returns; *)
(* no set is freed twice, leaked or read after its release, with           *)
(* collisions enabled or disabled.                                         *)
C17_ContactsScopedToSubstep ==
    /\ ~contacts.fault
    /\ pc \in {"loop", "find_contacts", "done"} => ~contacts.live
    /\ contacts.live => (parms.is_hair /\ parms.coll_enabled)

\* a hair frame whose second substep found a contact set and released it
C17_Witness ==
    /\ pc = "done"
    /\ parms.is_hair /\ parms.coll_enabled
    /\ frame.nsub = 2
    /\ contacts.ptr /\ ~contacts.live

(* C18: before every BPH_mass_spring_solve_velocities call, the extra      *)
(* solve of cloth_collision_solve_extra included, the constraints are      *)
(* cleared and rebuilt, so a solve sees exactly one zero-degree-of-freedom *)
(* constraint on each pinned vertex, the accepted contacts on the vertices *)
(* they touch, and nothing carried over from an earlier solve.             *)
C18_ConstraintsRebuiltBeforeEverySolve ==
    /\ frame.nsolve <= frame.nsetup
    /\ pc = "solve" =>
          \A i \in Verts :
             /\ HasBit(verts[i].flags, CLOTH_VERT_FLAG_PINNED) =>
                   implicit.cons[i] = [ndof |-> 0, dV |-> 0]
             /\ (~HasBit(verts[i].flags, CLOTH_VERT_FLAG_PINNED)
                     /\ implicit.cons[i] # NoConstraint) =>
                   \E c \in 1..contacts.totcolliders :
                      \E k \in DOMAIN contacts.list[c].collisions :
                         contacts.list[c].collisions[k].face1 = i

(***************************************************************************)
(* Specification SpecPhases: the frames of BPH_cloth_solve and of          *)
(* BPH_strands_solve side by side.                                         *)
(***************************************************************************)
InitPhases == Init \/ InitStrands

NextPhases == Next \/ NextStrands

SpecPhases == InitPhases /\ [][NextPhases]_vars

\* in log, every b comes after an a that no other b has used
PhaseBefore(log, a, b) ==
    \A q \in DOMAIN log :
        log[q] = b =>
            \E p \in 1..(q - 1) :
                /\ log[p] = a
                /\ \A r \in (p + 1)..(q - 1) : log[r] # b

\* in log, between any two b there is an a
PhaseBetween(log, a, b) ==
    \A p \in DOMAIN log, q \in DOMAIN log :
        (p < q /\ log[p] = b /\ log[q] = b) =>
            \E r \in (p + 1)..(q - 1) : log[r] = a

\* the order of the phases of BPH_cloth_solve, step by step
ClothPhaseStep ==
    /\ pc' = "clear_forces" => pc = "setup_constraints"
    /\ pc' = "damping" => pc = "clear_forces" /\ implicit'.num_blocks = 0
    /\ pc' = "calc_force" => pc = "damping"
    /\ pc' = "solve" => pc = "calc_force"
    /\ pc' = "continuum" => pc = "solve" /\ frame'.nsolve = frame.nsolve + 1
    /\ pc' = "positions" =>
          /\ pc \in {"solve", "continuum"}
          /\ pc = "solve" => frame'.nsolve = frame.nsolve + 1
    /\ pc' = "extra" => pc = "positions" /\ frame'.npos = frame.npos + 1
    /\ pc' = "apply" =>
          /\ pc \in {"positions", "extra"}
          /\ pc = "positions" => frame'.npos = frame.npos + 1
    /\ pc' = "pins" => pc = "apply" /\ frame'.napply = frame.napply + 1
    /\ pc' = "free_contacts" => pc = "pins"
    /\ pc' = "loop" => pc \in {"frame_start", "free_contacts"}

\* the same order in the counts of a frame of BPH_cloth_solve
ClothPhaseCounts ==
    pc \in {"loop", "find_contacts", "setup_constraints", "clear_forces",
            "damping", "calc_force", "solve", "continuum", "positions",
            "extra", "apply", "pins", "free_contacts", "done"} =>
        /\ frame.nsub <= frame.napply
        /\ frame.napply <= frame.npos
        /\ frame.npos <= frame.nsolve
        /\ frame.nsetup <= frame.nsub + 1
        /\ pc \in {"solve", "continuum", "positions"} =>
              frame.nsetup = frame.nsub + 1

\* the order of the calls of BPH_strands_solve
StrandsPhaseOrder ==
    pc \in {"strands_loop", "strands_done"} =>
        /\ Len(frame.log) = frame.nsub * Len(StrandsPhases)
        /\ PhaseBefore(frame.log, "clear_forces", "calc_force")
        /\ PhaseBefore(frame.log, "calc_force", "solve_velocities")
        /\ PhaseBefore(frame.log, "setup_constraints", "solve_velocities")
        /\ PhaseBefore(frame.log, "solve_velocities", "solve_positions")
        /\ PhaseBefore(frame.log, "solve_positions", "apply_result")
        /\ PhaseBetween(frame.log, "apply_result", "clear_forces")

(* C19: in every substep of BPH_cloth_solve and of BPH_strands_solve the   *)
(* forces are cleared before any is accumulated, the accumulation ends     *)
(* before the velocity solve, the constraints of the solve are in place    *)
(* before it, the velocity solve precedes the position integration, and    *)
(* the result is committed after the integration and before the next       *)
(* substep clears the forces.                                              *)
C19_PhasesInOrder ==
    [][ClothPhaseStep]_vars /\ [](ClothPhaseCounts /\ StrandsPhaseOrder)

\* a hair frame of two substeps, and a strands frame of two passes
C19_Witness ==
    \/ pc = "done" /\ parms.is_hair /\ frame.nsub = 2
    \/ pc = "strands_done" /\ frame.nsub = 2

\* the path of a substep of BPH_cloth_solve for the body kind of the frame
BodyKindStep ==
    /\ parms' = parms
    /\ pc' = "find_contacts" => parms.is_hair
    /\ pc' = "setup_constraints" => (parms.is_hair <=> pc = "find_contacts")
    /\ pc' = "continuum" => parms.is_hair
    /\ pc' = "positions" => (parms.is_hair <=> pc = "continuum")
    /\ pc' = "extra" => ~parms.is_hair
    /\ pc' = "apply" => (parms.is_hair <=> pc = "positions")

\* what the body kind leaves in the contacts and in the constraints
BodyKindState ==
    pc # "frame_start" =>
        /\ (parms.is_hair /\ parms.coll_enabled /\ pc = "setup_constraints") =>
              (contacts.ptr => contacts.live)
        /\ ~(parms.is_hair /\ parms.coll_enabled) => contacts = NoContacts
        /\ ~parms.is_hair =>
              \A k \in DOMAIN implicit.cons_log :
                 /\ implicit.cons_log[k].ndof = 0
                 /\ HasBit(verts[implicit.cons_log[k].index].flags,
                           CLOTH_VERT_FLAG_PINNED)

(* C20: in BPH_cloth_solve the body kind fixes the collision path of the   *)
(* whole frame: for hair the contacts are refreshed in each substep when   *)
(* collisions are enabled, the continuum step runs and                     *)
(* cloth_collision_solve_extra is never invoked; for cloth no contact      *)
(* detection and no continuum step run, the constraints are pin            *)
(* constraints only, and the extra collision pass runs after the position  *)
(* integration.                                                            *)
C20_BodyKindFixesCollisionPath ==
    [][BodyKindStep]_vars /\ []BodyKindState

\* a cloth frame whose extra collision pass solved again
C20_Witness ==
    /\ pc = "done"
    /\ ~parms.is_hair /\ parms.coll_enabled /\ parms.bvhtree
    /\ frame.nsolve > frame.nsub
    /\ implicit.cons_log # <<>>

(***************************************************************************)
(* Specification SpecFrames: BPH_cloth_solve called frame after frame on   *)
(* the same cloth, whose solver_result is kept from one call to the next.  *)
(***************************************************************************)
InitFrames ==
    /\ pc = "frame_start"
    /\ numverts = 1
    /\ verts = [i \in 0..(numverts - 1) |-> SolveVertex(TRUE)]
    /\ springs = <<>>
    /\ implicit = SolverFor(numverts, verts, springs)
    /\ heap = [allocs |-> 1, frees |-> 0]
    /\ \E steps \in 1..MaxSteps :
          parms = ClothParms(FALSE, FALSE, FALSE, TRUE, steps, 1, 0)
    /\ sres = NoResult
    /\ frame = FrameLocals(0, 0, 0)
    /\ contacts = NoContacts

\* the caller reads the result and calls BPH_cloth_solve for the next frame
NextFrame ==
    /\ pc = "done"
    /\ pc' = "frame_start"
    /\ UNCHANGED <<numverts, verts, springs, implicit, heap, parms, sres,
                   frame, contacts>>

NextFrames == NextStats \/ NextFrame

SpecFrames == InitFrames /\ [][NextFrames]_vars

\* the statuses, errors and iteration counts recorded in the frame
RecordedNow == BagToSet(frame.recorded)

(* C21: the aggregated result is reset at the start of every               *)
(* BPH_cloth_solve call, so over any sequence of frames the result read    *)
(* after a frame comes from that frame's substeps only: no status flag and *)
(* no statistic of an earlier frame is left in it.                         *)
C21_ResultResetEveryFrame ==
    /\ (pc = "loop" /\ frame.nsub = 0) =>
          sres = [status |-> 0, max_error |-> 0, min_error |-> 0,
                  avg_error |-> 0, max_iterations |-> 0,
                  min_iterations |-> 0, avg_iterations |-> 0]
    /\ pc = "done" =>
          /\ \A b \in {BPH_SOLVER_SUCCESS, BPH_SOLVER_NUMERICAL_ISSUE,
                       BPH_SOLVER_NO_CONVERGENCE, BPH_SOLVER_INVALID_INPUT} :
                HasBit(sres.status, b) <=> \E r \in RecordedNow : r.status = b
          /\ \E r \in RecordedNow : sres.max_iterations = r.iterations
          /\ \A r \in RecordedNow : sres.max_iterations >= r.iterations
          /\ sres.avg_iterations * frame.nsub =
                AvgScale * SumOfIterations(frame.recorded)

\* a frame of successful solves that followed a frame with a failed solve
C21_Witness ==
    /\ pc = "done"
    /\ HasBit(frame.prev_status, BPH_SOLVER_NO_CONVERGENCE)
    /\ sres.status = BPH_SOLVER_SUCCESS
    /\ frame.nsub = 2

\* a step of the spring loop of cloth_calc_force: the spring at the link
\* has been handled
SpringStep == pc = "calc_force" /\ frame'.link = frame.link + 1

(* C22: cloth_calc_spring_force sends a spring to exactly one force        *)
(* routine, by the first matching type bit in the order (structural or     *)
(* shear or sewing), goal, linear bending, angular bending; a sewing       *)
(* spring is a linear spring with the clamp parms->max_sewing, structural  *)
(* and shear springs pass the clamp 0; a spring of no type gets a zero     *)
(* force and its NEEDED flag cleared.                                      *)
C22_DispatchByFirstTypeBit ==
    [][(SpringStep /\ frame'.routine # "not_called") =>
        LET t   == springs[frame.link].type
            a   == springs'[frame.link]
            sew == HasBit(t, CLOTH_SPRING_TYPE_SEWING)
            lin == \/ HasBit(t, CLOTH_SPRING_TYPE_STRUCTURAL)
                   \/ HasBit(t, CLOTH_SPRING_TYPE_SHEAR)
                   \/ sew
            gl  == HasBit(t, CLOTH_SPRING_TYPE_GOAL)
            bd  == HasBit(t, CLOTH_SPRING_TYPE_BENDING)
            ang == HasBit(t, CLOTH_SPRING_TYPE_BENDING_ANG)
        IN  /\ frame'.routine = "linear_max_sewing" <=> sew
            /\ frame'.routine = "linear" <=> (lin /\ ~sew)
            /\ frame'.routine = "goal" <=> (gl /\ ~lin)
            /\ frame'.routine = "bending" <=> (bd /\ ~gl /\ ~lin)
            /\ frame'.routine = "bending_angular" <=>
                  (ang /\ ~bd /\ ~gl /\ ~lin)
            /\ frame'.routine = "none" <=>
                  ~(lin \/ gl \/ bd \/ ang)
            /\ HasBit(a.flags, CLOTH_SPRING_FLAG_NEEDED) <=>
                  frame'.routine # "none"
            /\ frame'.routine = "none" =>
                  (a.f = 0 /\ implicit' = implicit)
    ]_vars

\* a pass over a sewing spring that is a goal spring too, and a spring of
\* no type
C22_Witness ==
    /\ pc = "forces_done"
    /\ Len(springs) = 2
    /\ springs[1] = ClothSpring(CLOTH_SPRING_TYPE_SEWING + CLOTH_SPRING_TYPE_GOAL,
                                CLOTH_SPRING_FLAG_NEEDED, 1)
    /\ springs[2] = ClothSpring(0, 0, 0)
    /\ frame.routine = "none"

(* C30: cloth_calc_force evaluates only active springs: a spring with      *)
(* CLOTH_SPRING_FLAG_DEACTIVATE adds no force and no Jacobian to the       *)
(* solver and keeps its f, dfdx, dfdv and flags, while every active spring *)
(* has them reset to zero before its force is computed.                    *)
C30_OnlyActiveSpringsEvaluated ==
    [][SpringStep =>
        LET b == springs[frame.link]
            a == springs'[frame.link]
        IN  IF HasBit(b.flags, CLOTH_SPRING_FLAG_DEACTIVATE)
            THEN /\ a = b
                 /\ implicit' = implicit
                 /\ frame'.routine = "not_called"
            ELSE /\ frame'.routine # "not_called"
                 /\ a.f = IF frame'.routine \in {"none", "bending_angular"}
                          THEN 0 ELSE 1
    ]_vars

\* a pass that skipped a deactivated spring holding a force and the NEEDED
\* flag, and reset an active spring of no type that held a force
C30_Witness ==
    /\ pc = "forces_done"
    /\ Len(springs) = 2
    /\ springs[1] = ClothSpring(CLOTH_SPRING_TYPE_STRUCTURAL,
                       CLOTH_SPRING_FLAG_DEACTIVATE + CLOTH_SPRING_FLAG_NEEDED,
                       1)
    /\ springs[2].type = CLOTH_SPRING_TYPE_BENDING_ANG
    /\ springs[2].f = 0
    /\ implicit.num_blocks = 3

\* the four bits of a solver status
StatusBits ==
    {BPH_SOLVER_SUCCESS, BPH_SOLVER_NUMERICAL_ISSUE, BPH_SOLVER_NO_CONVERGENCE,
     BPH_SOLVER_INVALID_INPUT}

(* C23: after any number of substeps of a frame the aggregated status is   *)
(* the bitwise OR of the statuses of the main-loop solves recorded so far, *)
(* and a status bit once set is not cleared before the end of the frame:   *)
(* a failed substep stays visible whatever the later substeps report.      *)
C23_StatusIsOrOfSubsteps ==
    /\ [](pc # "frame_start" =>
            \A b \in StatusBits :
               HasBit(sres.status, b) <=> \E r \in RecordedNow : r.status = b)
    /\ [][pc # "frame_start" =>
            \A b \in StatusBits :
               HasBit(sres.status, b) => HasBit(sres'.status, b)]_vars

\* a frame whose first substep did not converge and whose second succeeded
C23_Witness ==
    /\ pc = "done"
    /\ frame.nsub = 2
    /\ sres.status = BPH_SOLVER_SUCCESS + BPH_SOLVER_NO_CONVERGENCE
    /\ sres.min_error = 0

\* the substeps recorded with success
RecordedOk == { r \in RecordedNow : r.status = BPH_SOLVER_SUCCESS }

(* C24: in a frame with at least one successful substep, min_error and     *)
(* max_error are the least and the greatest error of the successful        *)
(* substeps, whichever substep failed, and the errors of failed substeps   *)
(* enter neither min, max nor the average.                                 *)
C24_ErrorExtremesOverSuccesses ==
    (pc = "done" /\ RecordedOk # {}) =>
        /\ \E r \in RecordedOk : sres.min_error = r.error
        /\ \A r \in RecordedOk : sres.min_error <= r.error
        /\ \E r \in RecordedOk : sres.max_error = r.error
        /\ \A r \in RecordedOk : sres.max_error >= r.error
        /\ sres.avg_error * parms.stepsPerFrame =
              AvgScale * SumOver(RecordedOk,
                  [r \in RecordedOk |-> CopiesIn(r, frame.recorded) * r.error])

(* C25: after cloth_setup_constraints, whatever the contact lists, every   *)
(* pinned vertex carries exactly its zero-degree-of-freedom pin constraint *)
(* and never a collision constraint: contacts on pinned vertices are       *)
(* skipped and no constraint added for another contact replaces a pinned   *)
(* vertex's constraint.                                                    *)
C25_PinnedKeepPinConstraint ==
    pc = "setup_done" =>
        \A v \in Verts :
            HasBit(verts[v].flags, CLOTH_VERT_FLAG_PINNED) =>
                /\ implicit.cons[v] = [ndof |-> 0, dV |-> 0]
                /\ \A k \in DOMAIN implicit.cons_log :
                      implicit.cons_log[k].index = v =>
                          implicit.cons_log[k].ndof = 0

(* C26: when BPH_strands_solve returns true, for every substep count       *)
(* n >= 1 the last root-location update uses the interpolation parameter   *)
(* 1, so the root ends the frame on its new rest location, and the         *)
(* parameter used after the k-th executed substep is k / n.                *)
C26_RootEndsOnRestLocation ==
    /\ (pc \in {"strands_loop", "strands_done"} /\ frame.nsub >= 1) =>
          frame.root_step = F32(frame.nsub * One, parms.substeps)
    /\ pc = "strands_done" =>
          /\ frame.root_step = One
          /\ implicit.X[0] = One * verts[0].xconst
          /\ verts[0].x = One * verts[0].xconst

(***************************************************************************)
(* BPH_strands_solver_create and one strands_calc_force pass over a strand *)
(* set given by the vertex counts of its curves.                           *)
(***************************************************************************)
MaxCurves == 3
MaxCurveVerts == 3

\* strands->totverts: the vertices of all curves
RECURSIVE StrandsTotverts(_)
StrandsTotverts(curves) ==
    IF curves = <<>> THEN 0
    ELSE Head(curves) + StrandsTotverts(Tail(curves))

\* BPH_strands_solver_create: the solver for numverts vertices and
\* numsprings off-diagonal blocks
BPH_strands_solver_create(id, curves) ==
    LET totverts   == StrandsTotverts(curves)
        numcurves  == Len(curves)
        numedges   == Max(totverts - numcurves, 0)
        numbends   == Max(totverts - 2 * numcurves, 0)
        numsprings == (totverts - numcurves) + numedges + 3 * numbends
    IN  BPH_mass_spring_solver_create(id, totverts, numsprings)

\* The strand iterators: a curve of n vertices has an edge per pair of
\* neighbours and a bend per triple of neighbours.
StrandEdges(n) == Max(n - 1, 0)
StrandBends(n) == Max(n - 2, 0)

\* strands_calc_curve_stretch_forces: a linear spring per edge
strands_calc_curve_stretch_forces(id, n) ==
    BPH_mass_spring_add_blocks(id, StrandEdges(n) * BlocksRequested("linear"))

\* strands_calc_curve_bending_forces: a goal spring on the first segment,
\* then an angular bending spring per bend; nothing without a bend
strands_calc_curve_bending_forces(id, n) ==
    IF StrandBends(n) = 0 THEN id
    ELSE BPH_mass_spring_add_blocks(id,
             BlocksRequested("goal")
             + StrandBends(n) * BlocksRequested("bending_angular"))

\* strands_calc_vertex_goal_forces: a goal spring per edge
strands_calc_vertex_goal_forces(id, n) ==
    BPH_mass_spring_add_blocks(id, StrandEdges(n) * BlocksRequested("goal"))

\* strands_calc_curve_forces
strands_calc_curve_forces(id, n) ==
    strands_calc_vertex_goal_forces(
        strands_calc_curve_bending_forces(
            strands_calc_curve_stretch_forces(id, n), n), n)

CurveSets ==
    UNION { [1..k -> 0..MaxCurveVerts] : k \in 0..MaxCurves }

InitCurves ==
    /\ pc = "curves_create"
    /\ \E curves \in CurveSets : parms = [curves |-> curves]
    /\ numverts = StrandsTotverts(parms.curves)
    /\ verts = DefaultVerts(numverts)
    /\ springs = <<>>
    /\ implicit = NULL
    /\ heap = [allocs |-> 0, frees |-> 0]
    /\ sres = NoResult
    /\ frame = [curve |-> 0]
    /\ contacts = NoContacts

\* BPH_strands_solver_create
StrandsSolverCreate ==
    /\ pc = "curves_create"
    /\ implicit' = BPH_strands_solver_create(heap.allocs + 1, parms.curves)
    /\ heap' = [heap EXCEPT !.allocs = @ + 1]
    /\ pc' = "curves_force"
    /\ UNCHANGED <<numverts, verts, springs, parms, sres, frame, contacts>>

\* one pass of the strand loop of strands_calc_force
StrandsCalcCurveForces ==
    /\ pc = "curves_force"
    /\ frame.curve < Len(parms.curves)
    /\ implicit' = strands_calc_curve_forces(implicit,
                                             parms.curves[frame.curve + 1])
    /\ frame' = [frame EXCEPT !.curve = @ + 1]
    /\ UNCHANGED <<pc, numverts, verts, springs, heap, parms, sres, contacts>>

\* the strand iterator is no longer valid
StrandsCalcForceEnd ==
    /\ pc = "curves_force"
    /\ frame.curve = Len(parms.curves)
    /\ pc' = "curves_done"
    /\ UNCHANGED <<numverts, verts, springs, implicit, heap, parms, sres,
                   frame, contacts>>

NextCurves ==
    \/ StrandsSolverCreate
    \/ StrandsCalcCurveForces
    \/ StrandsCalcForceEnd

SpecCurves == InitCurves /\ [][NextCurves]_vars

(* C27: for every strand set (any number of curves, each with any vertex   *)
(* count, 0 and 1 included) the capacity BPH_strands_solver_create passes  *)
(* to the solver is non-negative and at least the number of off-diagonal   *)
(* blocks one strands_calc_force pass requests.                            *)
C27_StrandsCapacitySuffices ==
    pc \in {"curves_force", "curves_done"} =>
        /\ implicit.scount >= 0
        /\ implicit.num_blocks <= implicit.scount
        /\ ~implicit.fatal

(* C28: BPH_strands_solve returns false when params->timescale is 0 or     *)
(* params->substeps < 1; it then performs no solve and leaves the solver   *)
(* state and every state position and velocity unchanged.  In every other  *)
(* case it runs its loop and returns true.                                 *)
C28_StrandsRefusesBadParams ==
    /\ [](pc = "strands_refused" =>
             /\ parms.timescale = 0 \/ parms.substeps < 1
             /\ frame.nsub = 0 /\ frame.log = <<>>)
    /\ [](pc \in {"strands_loop", "strands_done"} =>
             /\ parms.timescale # 0 /\ parms.substeps >= 1
             /\ pc = "strands_done" => frame.nsub >= 1)
    /\ [][pc' = "strands_refused" =>
             /\ pc = "strands_start"
             /\ implicit' = implicit
             /\ verts' = verts]_vars

C28_Witness ==
    /\ pc = "strands_refused"
    /\ parms.timescale = 1 /\ parms.substeps = 0
    /\ verts[0].xconst # 0
    /\ implicit.V[0] = 0 /\ implicit.X[0] = 0

(***************************************************************************)
(* cloth_continuum_fill_grid: the hair segments added to the grid from the *)
(* spring list.  A link is a position in the list, 0 is the NULL link.     *)
(***************************************************************************)
MaxGridSprings == 3

\* a ClothSpring with the fields the walk reads
HairSpring(t, ij, kl) == [type |-> t, ij |-> ij, kl |-> kl]

HairSprings ==
    { HairSpring(t, ij, kl) :
        t \in {CLOTH_SPRING_TYPE_STRUCTURAL, CLOTH_SPRING_TYPE_BENDING,
               CLOTH_SPRING_TYPE_STRUCTURAL + CLOTH_SPRING_TYPE_SEWING},
        ij \in 0..1, kl \in 0..1 }

\* link->next
LinkNext(list, link) == IF link < Len(list) THEN link + 1 ELSE 0

\* a successor test that does not compare the end points
hair_spring_next_Mutant(list, spring_link) ==
    LET next == LinkNext(list, spring_link)
    IN  IF next # 0 /\ list[next].type = CLOTH_SPRING_TYPE_STRUCTURAL
        THEN next
        ELSE 0

\* hair_spring_next: the next spring forming a continuous hair sequence
hair_spring_next(list, spring_link) ==
    LET next == LinkNext(list, spring_link)
    IN  IF /\ next # 0
           /\ list[next].type = CLOTH_SPRING_TYPE_STRUCTURAL
           /\ list[next].kl = list[spring_link].ij
        THEN next
        ELSE 0

\* The while loop of cloth_continuum_add_hair_segments, entered with the
\* springs spring2 and spring3 of the last pass: each pass moves on, reads
\* the next segment and calls BPH_hair_volume_add_segment.
RECURSIVE AddHairSegmentsLoop(_, _, _, _, _)
AddHairSegmentsLoop(list, spring_link, spring2, spring3, segments) ==
    LET spring1m  == spring2
        spring2m  == spring3
        next_link == LinkNext(list, spring_link)
        link      == hair_spring_next(list, spring_link)
        spring3m  == link
        segment   == [spring |-> spring2m,
                      dir1 |-> spring1m # 0,
                      dir3 |-> spring3m # 0]
    IN  IF link # 0
        THEN AddHairSegmentsLoop(list, link, spring2m, spring3m,
                                 Append(segments, segment))
        ELSE [link |-> next_link, segments |-> Append(segments, segment)]

\* cloth_continuum_add_hair_segments(grid, ..., cloth, spring_link): the
\* link to go on with and the grid's segments
cloth_continuum_add_hair_segments(segments, list, spring_link) ==
    AddHairSegmentsLoop(list, spring_link, 0, spring_link, segments)

InitGrid ==
    /\ pc = "fill_grid"
    /\ numverts = 2
    /\ verts = DefaultVerts(numverts)
    /\ springs \in SeqsUpTo(HairSprings, MaxGridSprings)
    /\ implicit = NULL
    /\ heap = [allocs |-> 0, frees |-> 0]
    /\ parms = NoParms
    /\ sres = NoResult
    /\ frame = [link |-> LinkNext(springs, 0), segments |-> <<>>, passes |-> 0]
    /\ contacts = NoContacts

\* one pass of the while loop of cloth_continuum_fill_grid
FillGridPass ==
    /\ pc = "fill_grid"
    /\ frame.link # 0
    /\ IF springs[frame.link].type = CLOTH_SPRING_TYPE_STRUCTURAL
       THEN LET r == cloth_continuum_add_hair_segments(frame.segments,
                                                       springs, frame.link)
            IN  frame' = [link |-> r.link, segments |-> r.segments,
                          passes |-> frame.passes + 1]
       ELSE frame' = [frame EXCEPT !.link = LinkNext(springs, frame.link),
                                   !.passes = @ + 1]
    /\ UNCHANGED <<pc, numverts, verts, springs, implicit, heap, parms, sres,
                   contacts>>

\* the list is exhausted: BPH_hair_volume_normalize_vertex_grid and return
FillGridEnd ==
    /\ pc = "fill_grid"
    /\ frame.link = 0
    /\ pc' = "grid_done"
    /\ UNCHANGED <<numverts, verts, springs, implicit, heap, parms, sres,
                   frame, contacts>>

NextGrid == FillGridPass \/ FillGridEnd

\* the function runs to its end without waiting on anything
SpecGrid == InitGrid /\ [][NextGrid]_vars /\ WF_vars(NextGrid)

IsStructural(k) == springs[k].type = CLOTH_SPRING_TYPE_STRUCTURAL

\* spring k goes on the strand of spring k - 1
ContinuesStrand(k) ==
    /\ k > 1 /\ k <= Len(springs)
    /\ IsStructural(k - 1) /\ IsStructural(k)
    /\ springs[k].kl = springs[k - 1].ij

\* the positions of the structural springs, in list order
RECURSIVE StructuralFrom(_)
StructuralFrom(k) ==
    IF k > Len(springs) THEN <<>>
    ELSE (IF IsStructural(k) THEN <<k>> ELSE <<>>) \o StructuralFrom(k + 1)

(* C29: for any finite spring list cloth_continuum_fill_grid terminates    *)
(* and adds exactly one hair segment per structural spring, in list order, *)
(* each spring visited once; within a run of consecutive structural        *)
(* springs whose kl equals the previous spring's ij the first segment has  *)
(* no previous direction and the last no next direction; non-structural    *)
(* springs add no segment.                                                 *)
C29_OneSegmentPerStructuralSpring ==
    /\ <>(pc = "grid_done")
    /\ [](pc = "grid_done" =>
            /\ frame.passes <= Len(springs)
            /\ [i \in DOMAIN frame.segments |-> frame.segments[i].spring]
                  = StructuralFrom(1)
            /\ \A i \in DOMAIN frame.segments :
                  LET k == frame.segments[i].spring
                  IN  /\ frame.segments[i].dir1 <=> ContinuesStrand(k)
                      /\ frame.segments[i].dir3 <=> ContinuesStrand(k + 1))
    /\ [][pc = "fill_grid" /\ pc' = "fill_grid" =>
             /\ frame.link < frame'.link \/ frame'.link = 0
             /\ Len(frame'.segments) - Len(frame.segments)
                   = (IF frame'.link = 0 THEN Len(springs) + 1
                      ELSE frame'.link) - frame.link
                \/ (~IsStructural(frame.link)
                    /\ frame'.segments = frame.segments)]_vars

C29_Witness ==
    /\ pc = "grid_done"
    /\ Len(springs) = 3
    /\ IsStructural(1) /\ IsStructural(2) /\ IsStructural(3)
    /\ ContinuesStrand(2) /\ ~ContinuesStrand(3)
    /\ Len(frame.segments) = 3
    /\ frame.segments[2] = [spring |-> 2, dir1 |-> TRUE, dir3 |-> FALSE]
    /\ frame.segments[3] = [spring |-> 3, dir1 |-> FALSE, dir3 |-> FALSE]

====
